---- MODULE Spec2Model ----
(***************************************************************************)
(* Quoting engine of the SDK: StablePool (entities/pools/stable/index.ts)  *)
(* and LinearPool (the pool class in doAddLiquidityUnbalancedQuery.ts),    *)
(* built from raw pool records and queried with swapGivenIn, swapGivenOut, *)
(* getLimitAmountSwap and getNormalizedLiquidity.                          *)
(*                                                                         *)
(* Numbers.  The program computes on bigints with an 18-decimal fixed      *)
(* point.  TLC's integers are 32 bits wide, so the fixed point is scaled   *)
(* to two decimals: WAD is 10^2, an "18-decimal" token has 2 decimals, and *)
(* the pre-minted supplies are scaled accordingly.  Every formula is kept  *)
(* as the code writes it; only the magnitude of the unit changes.          *)
(*                                                                         *)
(* Indices are the code's 0-based indices (-1 for "not found"); the        *)
(* sequences that hold the arrays are 1-based, so array[i] is seq[i + 1].  *)
(***************************************************************************)
EXTENDS Integers, Sequences, FiniteSets, TLC

\* ------------------------------------------------------------------------
\* Bounds of the model
\* ------------------------------------------------------------------------

\* Largest number of whole tokens a raw record gives as a balance.
MaxBalance == 4

\* The largest swap amounts requested are the multiples 1 .. MaxSwapSteps of
\* one and a half full-precision tokens.
MaxSwapSteps == 2

\* ------------------------------------------------------------------------
\* Program constants (utils, scaled to the two-decimal fixed point)
\* ------------------------------------------------------------------------

WAD == 100

FullDecimals == 2

AMP_PRECISION == 1000

MAX_ITERATIONS == 255

PREMINTED_STABLE_BPT == 2048

MAX_UINT112 == 4096

MAX_TOKEN_BALANCE == MAX_UINT112 - 1

\* unsafeFastParseEther: a decimal string, given here in hundredths, to WAD.
unsafeFastParseEther(hundredths) == (hundredths * WAD) \div 100

ALMOST_ONE == unsafeFastParseEther(99)

ONE == unsafeFastParseEther(100)

MAX_RATIO == unsafeFastParseEther(1000)

\* ------------------------------------------------------------------------
\* Values and errors
\* ------------------------------------------------------------------------

UnknownToken == "Pool does not contain the tokens provided"

ExceedsPoolLimit == "Swap amount exceeds the pool limit"

TypeError == "TypeError"

RangeError == "RangeError"

InvalidAmount == "InvalidAmount"

InvariantDidNotConverge == "InvariantDidNotConverge"

OutOfBounds == "OutOfBounds"

NoPriceRate == "Stable pool token does not have a price rate"

InvalidPoolId == "Invalid poolId length"

\* The outcome of a math routine: a number, or the error it threw.
Val(v) == [ok |-> TRUE, error |-> "", value |-> v]

Thrown(e) == [ok |-> FALSE, error |-> e, value |-> 0]

Max(a, b) == IF a >= b THEN a ELSE b

Abs(a) == IF a >= 0 THEN a ELSE -a

\* bigint division truncates toward zero; a zero divisor throws RangeError.
BigDiv(a, b) ==
    IF (a >= 0) = (b > 0) THEN Abs(a) \div Abs(b) ELSE -(Abs(a) \div Abs(b))

\* ------------------------------------------------------------------------
\* MathSol: fixed-point arithmetic with explicit rounding
\* ------------------------------------------------------------------------

mulDownFixed(a, b) == BigDiv(a * b, WAD)

mulUpFixed(a, b) ==
    IF a * b = 0 THEN 0 ELSE BigDiv(a * b - 1, WAD) + 1

divDownFixed(a, b) ==
    IF a = 0 THEN 0 ELSE BigDiv(a * WAD, b)

divUpFixed(a, b) ==
    IF a = 0 THEN 0 ELSE BigDiv(a * WAD - 1, b) + 1

divUp(a, b) ==
    IF a = 0 THEN 0 ELSE 1 + BigDiv(a - 1, b)

complementFixed(x) == IF x < WAD THEN WAD - x ELSE 0

\* ------------------------------------------------------------------------
\* Token and TokenAmount
\* ------------------------------------------------------------------------

Token(chainId, address, decimals) ==
    [chainId |-> chainId, address |-> address, decimals |-> decimals]

\* Token.isEqual: equality is by (chain, address).
isEqual(a, b) == a.chainId = b.chainId /\ a.address = b.address

Scalar(token) == 10 ^ (FullDecimals - token.decimals)

\* The TokenAmount constructor: raw amount, scalar and normalized amount.
TokenAmount(token, amount) ==
    [token |-> token, amount |-> amount,
     scalar |-> Scalar(token), scale18 |-> amount * Scalar(token)]

fromRawAmount(token, rawAmount) == TokenAmount(token, rawAmount)

\* parseUnits of a human amount, given here in whole tokens.
fromHumanAmount(token, humanAmount) ==
    TokenAmount(token, humanAmount * (10 ^ token.decimals))

\* Normalized to native units; divUp selects the rounding direction.
fromScale18Amount(token, scale18Amount, roundUp) ==
    TokenAmount(token,
        IF roundUp
        THEN 1 + BigDiv(scale18Amount - 1, Scalar(token))
        ELSE BigDiv(scale18Amount, Scalar(token)))

taSub(a, b) == TokenAmount(a.token, a.amount - b.amount)

taMulUpFixed(a, other) == TokenAmount(a.token, mulUpFixed(a.amount, other))

taMulDownFixed(a, other) == TokenAmount(a.token, mulDownFixed(a.amount, other))

taDivUpFixed(a, other) == TokenAmount(a.token, divUpFixed(a.amount, other))

taDivDownFixed(a, other) == TokenAmount(a.token, divDownFixed(a.amount, other))

\* ------------------------------------------------------------------------
\* Arrays
\* ------------------------------------------------------------------------

\* matches[k] tells whether the callback accepts the k-th element.
RECURSIVE FindFrom(_, _)
FindFrom(matches, i) ==
    IF i > Len(matches) THEN -1
    ELSE IF matches[i] THEN i - 1
    ELSE FindFrom(matches, i + 1)

\* Array.prototype.findIndex: the 0-based index of the first element the
\* callback accepts, or -1.
findIndex(matches) == FindFrom(matches, 1)

\* array[i] is defined for 0 <= i < length, undefined otherwise.
Defined(seq, i) == i >= 0 /\ i < Len(seq)

At(seq, i) == seq[i + 1]

RECURSIVE SumFrom(_, _)
SumFrom(seq, i) == IF i > Len(seq) THEN 0 ELSE seq[i] + SumFrom(seq, i + 1)

SumSeq(seq) == SumFrom(seq, 1)

\* Array.prototype.splice(start, 1) on a copy: a negative start counts from
\* the end of the array, so splice(-1, 1) removes the last element.
splice1(seq, start) ==
    LET n == Len(seq)
        s == IF start < 0 THEN Max(n + start, 0) ELSE IF start > n THEN n ELSE start
    IN  [k \in 1 .. (IF s < n THEN n - 1 ELSE n) |->
            IF k <= s THEN seq[k] ELSE seq[k + 1]]

\* Array.prototype.sort((a, b) => a.index - b.index)
sortByIndex(tokens) == SortSeq(tokens, LAMBDA a, b : a.index < b.index)

\* ------------------------------------------------------------------------
\* Stable pool math (pools/stable/math): Newton-Raphson invariant and the
\* swap, single-sided join and single-token exit formulas.  Each routine
\* yields Val(number) or Thrown(error).
\* ------------------------------------------------------------------------

AnyZero(balances) == \E k \in 1 .. Len(balances) : balances[k] = 0

RECURSIVE InvariantDP(_, _, _, _)
InvariantDP(D_P, invariant, balances, j) ==
    IF j > Len(balances) THEN D_P
    ELSE InvariantDP(BigDiv(D_P * invariant, balances[j] * Len(balances)),
                     invariant, balances, j + 1)

\* The running state of an iteration: the current iterate, and, once the
\* loop has returned or thrown, its outcome.
Running(value) == [done |-> FALSE, out |-> Val(value), value |-> value]

Returned(out) == [done |-> TRUE, out |-> out, value |-> out.value]

\* One pass of the loop body of _calculateInvariant.
InvariantPass(ampTimesTotal, balances, sum, invariant) ==
    LET n == Len(balances)
        D_P == InvariantDP(invariant, invariant, balances, 1)
        num == (BigDiv(ampTimesTotal * sum, AMP_PRECISION) + D_P * n) * invariant
        den == BigDiv((ampTimesTotal - AMP_PRECISION) * invariant, AMP_PRECISION)
               + (n + 1) * D_P
        Step(next) == IF Abs(next - invariant) <= 1 THEN Returned(Val(next))
                      ELSE Running(next)
    IN  IF den = 0 THEN Returned(Thrown(RangeError))
        ELSE Step(BigDiv(num, den))

\* The next passes of the loop, the first half of them and then the rest;
\* none once the loop has returned.
RECURSIVE InvariantLoop(_, _, _, _, _)
InvariantLoop(ampTimesTotal, balances, sum, state, passes) ==
    IF state.done \/ passes = 0 THEN state
    ELSE IF passes = 1
    THEN InvariantPass(ampTimesTotal, balances, sum, state.value)
    ELSE InvariantLoop(ampTimesTotal, balances, sum,
             InvariantLoop(ampTimesTotal, balances, sum, state, passes \div 2),
             passes - passes \div 2)

\* D0 is the sum of the balances; iterate until |D' - D| <= 1 or the iteration
\* budget is spent, which is fatal.
_calculateInvariant(amp, balances) ==
    LET sum == SumSeq(balances)
        Ended(end) == IF end.done THEN end.out
                      ELSE Thrown(InvariantDidNotConverge)
    IN  IF sum = 0 THEN Val(0)
        ELSE IF AnyZero(balances) THEN Thrown(RangeError)
        ELSE Ended(InvariantLoop(amp * Len(balances), balances, sum,
                                 Running(sum), MAX_ITERATIONS))

RECURSIVE BalancePD(_, _, _, _)
BalancePD(P_D, balances, invariant, j) ==
    IF j > Len(balances) THEN P_D
    ELSE BalancePD(BigDiv(P_D * balances[j] * Len(balances), invariant),
                   balances, invariant, j + 1)

\* One pass of the loop body of
\* _getTokenBalanceGivenInvariantAndAllOtherBalances.
BalancePass(tokenBalance, b, c, invariant) ==
    LET den == tokenBalance * 2 + b - invariant
        Step(next) == IF Abs(next - tokenBalance) <= 1 THEN Returned(Val(next))
                      ELSE Running(next)
    IN  IF den = 0 THEN Returned(Thrown(RangeError))
        ELSE Step(divUp(tokenBalance * tokenBalance + c, den))

RECURSIVE BalanceLoop(_, _, _, _, _)
BalanceLoop(state, b, c, invariant, passes) ==
    IF state.done \/ passes = 0 THEN state
    ELSE IF passes = 1 THEN BalancePass(state.value, b, c, invariant)
    ELSE BalanceLoop(BalanceLoop(state, b, c, invariant, passes \div 2),
                     b, c, invariant, passes - passes \div 2)

\* The balance of tokenIndex that keeps the invariant, all others given.
_getTokenBalanceGivenInvariantAndAllOtherBalances(amp, balances, invariant, tokenIndex) ==
    IF ~Defined(balances, tokenIndex) THEN Thrown(TypeError)
    ELSE IF invariant = 0 THEN Thrown(RangeError)
    ELSE
        LET n == Len(balances)
            ampTimesTotal == amp * n
            P_D == BalancePD(balances[1] * n, balances, invariant, 2)
            sum == SumSeq(balances) - At(balances, tokenIndex)
            inv2 == invariant * invariant
            anp == BigDiv(ampTimesTotal * P_D, AMP_PRECISION)
            Ended(end) == IF end.done THEN end.out
                          ELSE Thrown(InvariantDidNotConverge)
            Solve(b, c) ==
                IF invariant + b = 0 THEN Thrown(RangeError)
                ELSE Ended(BalanceLoop(Running(divUp(inv2 + c, invariant + b)),
                                       b, c, invariant, MAX_ITERATIONS))
        IN  IF anp = 0 THEN Thrown(RangeError)
            ELSE Solve(sum + BigDiv(invariant * AMP_PRECISION, ampTimesTotal),
                       divUp(inv2, anp) * At(balances, tokenIndex))

\* balances[index] += delta on the array handed in.
Bump(balances, index, delta) ==
    [k \in 1 .. Len(balances) |->
        IF k = index + 1 THEN balances[k] + delta ELSE balances[k]]

_calcOutGivenIn(amp, balances, tokenIndexIn, tokenIndexOut, tokenAmountIn, invariant) ==
    IF ~Defined(balances, tokenIndexIn) \/ ~Defined(balances, tokenIndexOut)
    THEN Thrown(TypeError)
    ELSE
        LET moved == Bump(balances, tokenIndexIn, tokenAmountIn)
            Out(finalBalanceOut) ==
                IF ~finalBalanceOut.ok THEN finalBalanceOut
                ELSE Val(At(balances, tokenIndexOut) - finalBalanceOut.value - 1)
        IN  Out(_getTokenBalanceGivenInvariantAndAllOtherBalances(
                    amp, moved, invariant, tokenIndexOut))

_calcInGivenOut(amp, balances, tokenIndexIn, tokenIndexOut, tokenAmountOut, invariant) ==
    IF ~Defined(balances, tokenIndexIn) \/ ~Defined(balances, tokenIndexOut)
    THEN Thrown(TypeError)
    ELSE
        LET moved == Bump(balances, tokenIndexOut, -tokenAmountOut)
            In(finalBalanceIn) ==
                IF ~finalBalanceIn.ok THEN finalBalanceIn
                ELSE Val(finalBalanceIn.value - At(balances, tokenIndexIn) + 1)
        IN  In(_getTokenBalanceGivenInvariantAndAllOtherBalances(
                   amp, moved, invariant, tokenIndexIn))

\* array[index] = value: a negative index sets a property and leaves the
\* elements of the array as they are.
SetAt(arr, index, value) ==
    [k \in 1 .. Len(arr) |-> IF k = index + 1 THEN value ELSE arr[k]]

\* new Array(length).fill(0n)
Zeros(length) == [k \in 1 .. length |-> 0]

\* Single-sided join: liquidity tokens minted for the given per-token deltas.
_calcBptOutGivenExactTokensIn(amp, balances, amountsIn, bptTotalSupply, currentInvariant, swapFee) ==
    LET n == Len(balances)
        sumBalances == SumSeq(balances)
        balanceRatiosWithFee ==
            [k \in 1 .. n |-> divDownFixed(balances[k] + amountsIn[k], balances[k])]
        invariantRatioWithFees ==
            SumSeq([k \in 1 .. n |->
                mulDownFixed(balanceRatiosWithFee[k],
                             divDownFixed(balances[k], sumBalances))])
        newBalances ==
            [k \in 1 .. n |->
                IF balanceRatiosWithFee[k] > invariantRatioWithFees
                THEN LET nonTaxableAmount ==
                             mulDownFixed(balances[k], invariantRatioWithFees - ONE)
                         taxableAmount == amountsIn[k] - nonTaxableAmount
                     IN  balances[k] + nonTaxableAmount
                         + mulDownFixed(taxableAmount, ONE - swapFee)
                ELSE balances[k] + amountsIn[k]]
        Minted(invariantRatio) ==
            IF invariantRatio > ONE
            THEN Val(mulDownFixed(bptTotalSupply, invariantRatio - ONE))
            ELSE Val(0)
        Out(newInvariant) ==
            IF ~newInvariant.ok THEN newInvariant
            ELSE Minted(divDownFixed(newInvariant.value, currentInvariant))
    IN  IF AnyZero(balances) \/ currentInvariant = 0 THEN Thrown(RangeError)
        ELSE Out(_calculateInvariant(amp, newBalances))

\* Liquidity tokens burned for the given per-token amounts out.
_calcBptInGivenExactTokensOut(amp, balances, amountsOut, bptTotalSupply, currentInvariant, swapFee) ==
    LET n == Len(balances)
        sumBalances == SumSeq(balances)
        balanceRatiosWithoutFee ==
            [k \in 1 .. n |-> divUpFixed(balances[k] - amountsOut[k], balances[k])]
        invariantRatioWithoutFees ==
            SumSeq([k \in 1 .. n |->
                mulUpFixed(balanceRatiosWithoutFee[k],
                           divUpFixed(balances[k], sumBalances))])
        newBalances ==
            [k \in 1 .. n |->
                IF invariantRatioWithoutFees > balanceRatiosWithoutFee[k]
                THEN LET nonTaxableAmount ==
                             mulDownFixed(balances[k],
                                          complementFixed(invariantRatioWithoutFees))
                         taxableAmount == amountsOut[k] - nonTaxableAmount
                     IN  balances[k] - (nonTaxableAmount
                                        + divUpFixed(taxableAmount, ONE - swapFee))
                ELSE balances[k] - amountsOut[k]]
        In(newInvariant) ==
            IF ~newInvariant.ok THEN newInvariant
            ELSE Val(mulUpFixed(bptTotalSupply,
                     complementFixed(divDownFixed(newInvariant.value,
                                                  currentInvariant))))
    IN  IF AnyZero(balances) \/ currentInvariant = 0 \/ swapFee = ONE
        THEN Thrown(RangeError)
        ELSE In(_calculateInvariant(amp, newBalances))

\* Single-token join: tokens needed for an exact amount of liquidity tokens.
_calcTokenInGivenExactBptOut(amp, balances, tokenIndex, bptAmountOut, bptTotalSupply, currentInvariant, swapFee) ==
    LET newInvariant ==
            mulUpFixed(divUpFixed(bptTotalSupply + bptAmountOut, bptTotalSupply),
                       currentInvariant)
        currentWeight == divDownFixed(At(balances, tokenIndex), SumSeq(balances))
        WithFee(amountInWithoutFee, taxableAmount) ==
            Val((amountInWithoutFee - taxableAmount)
                + divUpFixed(taxableAmount, ONE - swapFee))
        Taxed(amountInWithoutFee) ==
            WithFee(amountInWithoutFee,
                    mulUpFixed(amountInWithoutFee, complementFixed(currentWeight)))
        In(newBalanceTokenIndex) ==
            IF ~newBalanceTokenIndex.ok THEN newBalanceTokenIndex
            ELSE Taxed(newBalanceTokenIndex.value - At(balances, tokenIndex))
    IN  IF bptTotalSupply = 0 \/ swapFee = ONE THEN Thrown(RangeError)
        ELSE In(_getTokenBalanceGivenInvariantAndAllOtherBalances(
                    amp, balances, newInvariant, tokenIndex))

\* Single-token exit: tokens paid out for an exact amount of liquidity tokens.
_calcTokenOutGivenExactBptIn(amp, balances, tokenIndex, bptAmountIn, bptTotalSupply, currentInvariant, swapFee) ==
    LET newInvariant ==
            mulUpFixed(divUpFixed(bptTotalSupply - bptAmountIn, bptTotalSupply),
                       currentInvariant)
        currentWeight == divDownFixed(At(balances, tokenIndex), SumSeq(balances))
        LessFee(amountOutWithoutFee, taxableAmount) ==
            Val((amountOutWithoutFee - taxableAmount)
                + mulDownFixed(taxableAmount, ONE - swapFee))
        Taxed(amountOutWithoutFee) ==
            LessFee(amountOutWithoutFee,
                    mulUpFixed(amountOutWithoutFee, complementFixed(currentWeight)))
        Out(newBalanceTokenIndex) ==
            IF ~newBalanceTokenIndex.ok THEN newBalanceTokenIndex
            ELSE Taxed(At(balances, tokenIndex) - newBalanceTokenIndex.value)
    IN  IF bptTotalSupply = 0 THEN Thrown(RangeError)
        ELSE Out(_getTokenBalanceGivenInvariantAndAllOtherBalances(
                     amp, balances, newInvariant, tokenIndex))

\* ------------------------------------------------------------------------
\* Linear pool math (pools/linear/math): piecewise conversions between the
\* main token, the wrapped token and the liquidity token against the target
\* band [lowerTarget, upperTarget].  Each yields Val(number) or Thrown(error).
\* ------------------------------------------------------------------------

Params(fee, rate, lowerTarget, upperTarget) ==
    [fee |-> fee, rate |-> rate, lowerTarget |-> lowerTarget, upperTarget |-> upperTarget]

_toNominal(real, params) ==
    IF real < params.lowerTarget
    THEN real - mulDownFixed(params.lowerTarget - real, params.fee)
    ELSE IF real <= params.upperTarget THEN real
    ELSE real - mulDownFixed(real - params.upperTarget, params.fee)

_fromNominal(nominal, params) ==
    IF nominal < params.lowerTarget
    THEN divDownFixed(nominal + mulDownFixed(params.fee, params.lowerTarget),
                      ONE + params.fee)
    ELSE IF nominal <= params.upperTarget THEN nominal
    ELSE divDownFixed(nominal - mulDownFixed(params.fee, params.upperTarget),
                      ONE - params.fee)

_calcInvariant(nominalMainBalance, wrappedBalance, params) ==
    nominalMainBalance + mulDownFixed(wrappedBalance, params.rate)

\* A trade that takes the main balance from one side of the band to the other
\* crosses both thresholds and is rejected.
CrossesBand(mainBefore, mainAfter, params) ==
    \/ mainBefore < params.lowerTarget /\ mainAfter > params.upperTarget
    \/ mainBefore > params.upperTarget /\ mainAfter < params.lowerTarget

Banded(mainBefore, mainAfter, params, value) ==
    IF CrossesBand(mainBefore, mainAfter, params) THEN Thrown(OutOfBounds)
    ELSE Val(value)

_calcWrappedOutPerMainIn(mainIn, mainBalance, params) ==
    LET previousNominalMain == _toNominal(mainBalance, params)
        afterNominalMain == _toNominal(mainBalance + mainIn, params)
    IN  IF params.rate = 0 THEN Thrown(RangeError)
        ELSE Banded(mainBalance, mainBalance + mainIn, params,
                    divDownFixed(afterNominalMain - previousNominalMain, params.rate))

_calcBptOutPerMainIn(mainIn, mainBalance, wrappedBalance, bptSupply, params) ==
    LET previousNominalMain == _toNominal(mainBalance, params)
        afterNominalMain == _toNominal(mainBalance + mainIn, params)
        invariant == _calcInvariant(previousNominalMain, wrappedBalance, params)
    IN  IF bptSupply = 0 THEN Val(_toNominal(mainIn, params))
        ELSE IF invariant = 0 THEN Thrown(RangeError)
        ELSE Banded(mainBalance, mainBalance + mainIn, params,
                    BigDiv(bptSupply * (afterNominalMain - previousNominalMain),
                           invariant))

_calcMainOutPerWrappedIn(wrappedIn, mainBalance, params) ==
    LET previousNominalMain == _toNominal(mainBalance, params)
        afterNominalMain == previousNominalMain - mulDownFixed(wrappedIn, params.rate)
        newMainBalance == _fromNominal(afterNominalMain, params)
    IN  Banded(mainBalance, newMainBalance, params, mainBalance - newMainBalance)

_calcBptOutPerWrappedIn(wrappedIn, mainBalance, wrappedBalance, bptSupply, params) ==
    LET nominalMain == _toNominal(mainBalance, params)
        previousInvariant == _calcInvariant(nominalMain, wrappedBalance, params)
        newInvariant == _calcInvariant(nominalMain, wrappedBalance + wrappedIn, params)
    IN  IF bptSupply = 0 THEN Val(mulDownFixed(wrappedIn, params.rate))
        ELSE IF previousInvariant = 0 THEN Thrown(RangeError)
        ELSE Val(BigDiv(bptSupply * newInvariant, previousInvariant) - bptSupply)

_calcMainOutPerBptIn(bptIn, mainBalance, wrappedBalance, bptSupply, params) ==
    LET previousNominalMain == _toNominal(mainBalance, params)
        invariant == _calcInvariant(previousNominalMain, wrappedBalance, params)
        deltaNominalMain == BigDiv(invariant * bptIn, bptSupply)
        newMainBalance == _fromNominal(previousNominalMain - deltaNominalMain, params)
    IN  IF bptSupply = 0 THEN Thrown(RangeError)
        ELSE Banded(mainBalance, newMainBalance, params, mainBalance - newMainBalance)

_calcWrappedOutPerBptIn(bptIn, mainBalance, wrappedBalance, bptSupply, params) ==
    LET nominalMain == _toNominal(mainBalance, params)
        previousInvariant == _calcInvariant(nominalMain, wrappedBalance, params)
        newBptBalance == bptSupply - bptIn
        newWrappedBalance ==
            divUpFixed(divUp(newBptBalance * previousInvariant, bptSupply) - nominalMain,
                       params.rate)
    IN  IF bptSupply = 0 \/ params.rate = 0 THEN Thrown(RangeError)
        ELSE Val(wrappedBalance - newWrappedBalance)

_calcMainInPerWrappedOut(wrappedOut, mainBalance, params) ==
    LET previousNominalMain == _toNominal(mainBalance, params)
        afterNominalMain == previousNominalMain + mulUpFixed(wrappedOut, params.rate)
        newMainBalance == _fromNominal(afterNominalMain, params)
    IN  IF params.fee = ONE THEN Thrown(RangeError)
        ELSE Banded(mainBalance, newMainBalance, params, newMainBalance - mainBalance)

_calcMainInPerBptOut(bptOut, mainBalance, wrappedBalance, bptSupply, params) ==
    LET previousNominalMain == _toNominal(mainBalance, params)
        invariant == _calcInvariant(previousNominalMain, wrappedBalance, params)
        deltaNominalMain == divUp(invariant * bptOut, bptSupply)
        newMainBalance == _fromNominal(previousNominalMain + deltaNominalMain, params)
    IN  IF bptSupply = 0 THEN Val(_fromNominal(bptOut, params))
        ELSE Banded(mainBalance, newMainBalance, params, newMainBalance - mainBalance)

_calcWrappedInPerMainOut(mainOut, mainBalance, params) ==
    LET previousNominalMain == _toNominal(mainBalance, params)
        afterNominalMain == _toNominal(mainBalance - mainOut, params)
    IN  IF params.rate = 0 THEN Thrown(RangeError)
        ELSE Banded(mainBalance, mainBalance - mainOut, params,
                    divUpFixed(previousNominalMain - afterNominalMain, params.rate))

_calcWrappedInPerBptOut(bptOut, mainBalance, wrappedBalance, bptSupply, params) ==
    LET nominalMain == _toNominal(mainBalance, params)
        previousInvariant == _calcInvariant(nominalMain, wrappedBalance, params)
        newBptBalance == bptSupply + bptOut
        newWrappedBalance ==
            divUpFixed(divUp(newBptBalance * previousInvariant, bptSupply) - nominalMain,
                       params.rate)
    IN  IF params.rate = 0 THEN Thrown(RangeError)
        ELSE IF bptSupply = 0 THEN Val(divUpFixed(bptOut, params.rate))
        ELSE Val(newWrappedBalance - wrappedBalance)

_calcBptInPerMainOut(mainOut, mainBalance, wrappedBalance, bptSupply, params) ==
    LET previousNominalMain == _toNominal(mainBalance, params)
        afterNominalMain == _toNominal(mainBalance - mainOut, params)
        invariant == _calcInvariant(previousNominalMain, wrappedBalance, params)
    IN  IF invariant = 0 THEN Thrown(RangeError)
        ELSE Banded(mainBalance, mainBalance - mainOut, params,
                    divUp(bptSupply * (previousNominalMain - afterNominalMain),
                          invariant))

_calcBptInPerWrappedOut(wrappedOut, mainBalance, wrappedBalance, bptSupply, params) ==
    LET nominalMain == _toNominal(mainBalance, params)
        previousInvariant == _calcInvariant(nominalMain, wrappedBalance, params)
        newInvariant == _calcInvariant(nominalMain, wrappedBalance - wrappedOut, params)
    IN  IF previousInvariant = 0 THEN Thrown(RangeError)
        ELSE Val(bptSupply - BigDiv(bptSupply * newInvariant, previousInvariant))

\* ------------------------------------------------------------------------
\* Pool identifiers.  A pool id is a string; the model keeps its length and
\* its first 42 characters (head), which is all the program reads of it.
\* ------------------------------------------------------------------------

PoolIdLength == 66

AddressLength == 42

PoolId(head, length) == [head |-> head, length |-> length]

\* poolId.slice(0, 42) of an id of any length.
getPoolAddressOfAnyLength(poolId) ==
    [ok |-> TRUE, error |-> "", address |-> poolId.head]

\* getPoolAddress: invariant(poolId.length === 66), then poolId.slice(0, 42).
getPoolAddress(poolId) ==
    IF poolId.length = PoolIdLength
    THEN [ok |-> TRUE, error |-> "", address |-> poolId.head]
    ELSE [ok |-> FALSE, error |-> InvalidPoolId, address |-> ""]

\* ------------------------------------------------------------------------
\* StablePool
\* ------------------------------------------------------------------------

StablePoolToken(token, amount, rate) ==
    [cls |-> "StablePoolToken", token |-> token, amount |-> amount,
     scalar |-> Scalar(token), rate |-> rate,
     scale18 |-> BigDiv(amount * Scalar(token) * rate, WAD)]

\* A liquidity-token entry whose virtual balance is the supply it holds.
BPTOfHeldSupply(token, amount) ==
    [cls |-> "BPT", token |-> token, amount |-> amount,
     scalar |-> Scalar(token), rate |-> WAD,
     scale18 |-> amount * Scalar(token),
     virtualBalance |-> amount]

BPT(token, amount) ==
    [cls |-> "BPT", token |-> token, amount |-> amount,
     scalar |-> Scalar(token), rate |-> WAD,
     scale18 |-> amount * Scalar(token),
     virtualBalance |-> PREMINTED_STABLE_BPT - amount]

NoPool == [kind |-> "none"]

Built(pool) == [ok |-> TRUE, error |-> "", pool |-> pool]

NotBuilt(e) == [ok |-> FALSE, error |-> e, pool |-> NoPool]

\* tokensNoBpt = [...tokens]; tokensNoBpt.splice(bptIndex, 1)
TokensNoBpt(tokens, bptIndex) == splice1(tokens, bptIndex)

\* The StablePool constructor.
StablePool(id, amp, swapFee, tokens, totalShares) ==
    LET address == getPoolAddress(id)
        bptIndex == findIndex([k \in 1 .. Len(tokens) |->
                                 tokens[k].token.address = address.address])
    IN  IF ~address.ok THEN NotBuilt(address.error)
        ELSE Built([kind |-> "Stable", id |-> id, address |-> address.address,
                    amp |-> amp, swapFee |-> swapFee, tokens |-> tokens,
                    tokensNoBpt |-> TokensNoBpt(tokens, bptIndex),
                    totalShares |-> totalShares, bptIndex |-> bptIndex])

\* The token order fromRawPool builds the pool with.
OrderedTokens(pool) == sortByIndex(pool.tokens)

StablePoolTokenOf(pool, t) ==
    LET token == Token(1, t.address, t.decimals)
        tokenAmount == fromHumanAmount(token, t.balance)
    IN  IF t.address = pool.address
        THEN BPT(token, tokenAmount.amount)
        ELSE StablePoolToken(token, tokenAmount.amount,
                             unsafeFastParseEther(t.priceRate))

\* StablePool.fromRawPool
StableFromRawPool(pool) ==
    LET orderedTokens == OrderedTokens(pool)
        poolTokens == [k \in 1 .. Len(orderedTokens) |->
                          StablePoolTokenOf(pool, orderedTokens[k])]
    IN  IF \E k \in 1 .. Len(orderedTokens) : ~orderedTokens[k].hasPriceRate
        THEN NotBuilt(NoPriceRate)
        ELSE StablePool(pool.id, pool.amp * 1000, unsafeFastParseEther(pool.swapFee),
                        poolTokens, unsafeFastParseEther(pool.totalShares))

\* ------------------------------------------------------------------------
\* LinearPool
\* ------------------------------------------------------------------------

LinearBPT(token, amount) ==
    [cls |-> "BPT", token |-> token, amount |-> amount,
     scalar |-> Scalar(token), rate |-> WAD,
     scale18 |-> amount * Scalar(token),
     virtualBalance |-> MAX_TOKEN_BALANCE - amount]

WrappedToken(token, amount, rate) ==
    [cls |-> "WrappedToken", token |-> token, amount |-> amount,
     scalar |-> Scalar(token), rate |-> rate,
     scale18 |-> BigDiv(amount * Scalar(token) * rate, WAD)]

\* The LinearPool constructor.
LinearPool(id, poolTypeVersion, params, mainToken, wrappedToken, bptToken) ==
    LET address == getPoolAddress(id)
    IN  IF ~address.ok THEN NotBuilt(address.error)
        ELSE Built([kind |-> "Linear", id |-> id, address |-> address.address,
                    poolTypeVersion |-> poolTypeVersion, swapFee |-> params.fee,
                    mainToken |-> mainToken, wrappedToken |-> wrappedToken,
                    bptToken |-> bptToken, params |-> params])

\* LinearPool.fromRawPool
LinearFromRawPool(pool) ==
    LET orderedTokens == OrderedTokens(pool)
        swapFee == unsafeFastParseEther(pool.swapFee)
        mT == At(orderedTokens, pool.mainIndex)
        mToken == Token(1, mT.address, mT.decimals)
        lowerTarget == fromHumanAmount(mToken, pool.lowerTarget)
        upperTarget == fromHumanAmount(mToken, pool.upperTarget)
        mTokenAmount == fromHumanAmount(mToken, mT.balance)
        wT == At(orderedTokens, pool.wrappedIndex)
        wTRate == unsafeFastParseEther(IF wT.hasPriceRate THEN wT.priceRate ELSE 100)
        wToken == Token(1, wT.address, wT.decimals)
        wTokenAmount == fromHumanAmount(wToken, wT.balance)
        wrappedToken == WrappedToken(wToken, wTokenAmount.amount, wTRate)
        bptIndex == findIndex([k \in 1 .. Len(orderedTokens) |->
                                 orderedTokens[k].address = pool.address])
        bT == At(orderedTokens, bptIndex)
        bToken == Token(1, bT.address, bT.decimals)
        bTokenAmount == fromHumanAmount(bToken, bT.balance)
        bptToken == LinearBPT(bToken, bTokenAmount.amount)
        params == Params(swapFee, wTRate, lowerTarget.scale18, upperTarget.scale18)
    IN  IF ~Defined(orderedTokens, pool.mainIndex)
           \/ ~Defined(orderedTokens, pool.wrappedIndex)
           \/ ~Defined(orderedTokens, bptIndex)
        THEN NotBuilt(TypeError)
        ELSE LinearPool(pool.id, pool.poolTypeVersion, params, mTokenAmount,
                        wrappedToken, bptToken)

\* The tokens of a pool: the field of a StablePool, the getter of a LinearPool.
tokens(pool) ==
    IF pool.kind = "Linear"
    THEN << pool.mainToken, pool.wrappedToken, pool.bptToken >>
    ELSE pool.tokens

\* ------------------------------------------------------------------------
\* Outcomes of a call on a pool
\* ------------------------------------------------------------------------

NoToken == Token(0, "", 0)

\* The call returned a TokenAmount / a bigint / threw.
Ret(ta) == [ok |-> TRUE, error |-> "", token |-> ta.token, amount |-> ta.amount]

RetInt(v) == [ok |-> TRUE, error |-> "", token |-> NoToken, amount |-> v]

Throw(e) == [ok |-> FALSE, error |-> e, token |-> NoToken, amount |-> 0]

\* One invocation of a pool math routine: its name, the normalized amount it
\* is given, the token positions it is given, the per-token vector, if any,
\* and what it yielded.
MathCall(fn, amount, indices, amounts, out) ==
    [fn |-> fn, amount |-> amount, indices |-> indices, amounts |-> amounts,
     out |-> out]

\* What a call leaves behind: its result, the math routines it invoked in
\* order, and the pool and the swapAmount argument as they are afterwards.
Outcome(result, calls, pool, swapAmount) ==
    [result |-> result, calls |-> calls, pool |-> pool, swapAmount |-> swapAmount]

\* ------------------------------------------------------------------------
\* StablePool operations
\* ------------------------------------------------------------------------

\* The amount handed on with no fee taken out of it.
withoutFeeSubtracted(swapFee, amount) == amount

subtractSwapFeeAmount(swapFee, amount) ==
    LET feeAmount == taMulUpFixed(amount, swapFee)
    IN  taSub(amount, feeAmount)

\* The fee put on top of the amount with the quotient rounded down.
addSwapFeeAmountRoundingDown(swapFee, amount) ==
    taDivDownFixed(amount, complementFixed(swapFee))

\* The fee put on top by multiplying the amount by one plus the fee.
addSwapFeeAmountByMultiplying(swapFee, amount) ==
    taMulUpFixed(amount, WAD + swapFee)

addSwapFeeAmount(swapFee, amount) ==
    taDivUpFixed(amount, complementFixed(swapFee))

AddressIndex(tokenList, token) ==
    findIndex([k \in 1 .. Len(tokenList) |->
                  tokenList[k].token.address = token.address])

\* A pool-limit comparison made against the virtual balance of the
\* liquidity token instead of the amount held.
exceedsVirtualBalance(pool, index, amount) ==
    LET entry == At(tokens(pool), index)
    IN  amount.amount > (IF "virtualBalance" \in DOMAIN entry
                         THEN entry.virtualBalance ELSE entry.amount)

\* amount.amount > this.tokens[index].amount
exceedsPoolLimit(pool, index, amount) ==
    amount.amount > At(tokens(pool), index).amount

\* balancesNoBpt = this.tokensNoBpt.map(t => t.scale18)
BalancesNoBpt(pool) ==
    [k \in 1 .. Len(pool.tokensNoBpt) |-> pool.tokensNoBpt[k].scale18]

\* The swap math of swapGivenIn: which routine, with which arguments.
StableGivenInMath(pool, tokenIn, tokenOut, amountIn18, invariant) ==
    LET balancesNoBpt == BalancesNoBpt(pool)
        tInIndexNoBpt == AddressIndex(pool.tokensNoBpt, tokenIn)
        tOutIndexNoBpt == AddressIndex(pool.tokensNoBpt, tokenOut)
        bpt == At(pool.tokens, pool.bptIndex).token
        amountsIn == SetAt(Zeros(Len(pool.tokensNoBpt)), tInIndexNoBpt, amountIn18)
    IN  IF isEqual(tokenIn, bpt)
        THEN MathCall("_calcTokenOutGivenExactBptIn", amountIn18,
                      << tOutIndexNoBpt >>, << >>,
                      _calcTokenOutGivenExactBptIn(pool.amp, balancesNoBpt,
                          tOutIndexNoBpt, amountIn18, pool.totalShares,
                          invariant, pool.swapFee))
        ELSE IF isEqual(tokenOut, bpt)
        THEN MathCall("_calcBptOutGivenExactTokensIn", amountIn18,
                      << >>, amountsIn,
                      _calcBptOutGivenExactTokensIn(pool.amp, balancesNoBpt,
                          amountsIn, pool.totalShares, invariant, pool.swapFee))
        ELSE MathCall("_calcOutGivenIn", amountIn18,
                      << tInIndexNoBpt, tOutIndexNoBpt >>, << >>,
                      _calcOutGivenIn(pool.amp, balancesNoBpt, tInIndexNoBpt,
                          tOutIndexNoBpt, amountIn18, invariant))

\* A swapGivenIn that goes on to the swap math with whatever the invariant
\* computation left, converged or not.
StableSwapGivenInPastTheInvariant(pool, tokenIn, tokenOut, swapAmount) ==
    LET tInIndex == AddressIndex(pool.tokens, tokenIn)
        tOutIndex == AddressIndex(pool.tokens, tokenOut)
        amountInWithFee == subtractSwapFeeAmount(pool.swapFee, swapAmount)
        amountInWithRate ==
            taMulDownFixed(amountInWithFee, At(pool.tokens, tInIndex).rate)
        done(result, calls) == Outcome(result, calls, pool, swapAmount)
        Returning(calls, amountOut) ==
            IF amountOut.amount < 0 THEN done(Throw(InvalidAmount), calls)
            ELSE done(Ret(taDivDownFixed(amountOut,
                                         At(pool.tokens, tOutIndex).rate)), calls)
        AfterMath(invCall, math) ==
            IF ~math.out.ok THEN done(Throw(math.out.error), << invCall, math >>)
            ELSE Returning(<< invCall, math >>,
                           fromScale18Amount(tokenOut, math.out.value, FALSE))
        AfterInvariant(invariant, invCall) ==
            IF ~Defined(pool.tokens, pool.bptIndex)
            THEN done(Throw(TypeError), << invCall >>)
            ELSE AfterMath(invCall,
                           StableGivenInMath(pool, tokenIn, tokenOut,
                               amountInWithRate.scale18, invariant.value))
        WithInvariant(invariant) ==
            AfterInvariant(invariant,
                           MathCall("_calculateInvariant", 0, << >>,
                                    BalancesNoBpt(pool), invariant))
    IN  IF tInIndex < 0 \/ tOutIndex < 0 THEN done(Throw(UnknownToken), << >>)
        ELSE IF exceedsPoolLimit(pool, tInIndex, swapAmount)
        THEN done(Throw(ExceedsPoolLimit), << >>)
        ELSE WithInvariant(_calculateInvariant(pool.amp, BalancesNoBpt(pool)))

\* StablePool.swapGivenIn
StableSwapGivenIn(pool, tokenIn, tokenOut, swapAmount) ==
    LET tInIndex == AddressIndex(pool.tokens, tokenIn)
        tOutIndex == AddressIndex(pool.tokens, tokenOut)
        amountInWithFee == subtractSwapFeeAmount(pool.swapFee, swapAmount)
        amountInWithRate ==
            taMulDownFixed(amountInWithFee, At(pool.tokens, tInIndex).rate)
        done(result, calls) == Outcome(result, calls, pool, swapAmount)
        Returning(calls, amountOut) ==
            IF amountOut.amount < 0 THEN done(Throw(InvalidAmount), calls)
            ELSE done(Ret(taDivDownFixed(amountOut,
                                         At(pool.tokens, tOutIndex).rate)), calls)
        AfterMath(invCall, math) ==
            IF ~math.out.ok THEN done(Throw(math.out.error), << invCall, math >>)
            ELSE Returning(<< invCall, math >>,
                           fromScale18Amount(tokenOut, math.out.value, FALSE))
        AfterInvariant(invariant, invCall) ==
            IF ~invariant.ok THEN done(Throw(invariant.error), << invCall >>)
            ELSE IF ~Defined(pool.tokens, pool.bptIndex)
            THEN done(Throw(TypeError), << invCall >>)
            ELSE AfterMath(invCall,
                           StableGivenInMath(pool, tokenIn, tokenOut,
                               amountInWithRate.scale18, invariant.value))
        WithInvariant(invariant) ==
            AfterInvariant(invariant,
                           MathCall("_calculateInvariant", 0, << >>,
                                    BalancesNoBpt(pool), invariant))
    IN  IF tInIndex < 0 \/ tOutIndex < 0 THEN done(Throw(UnknownToken), << >>)
        ELSE IF exceedsPoolLimit(pool, tInIndex, swapAmount)
        THEN done(Throw(ExceedsPoolLimit), << >>)
        ELSE WithInvariant(_calculateInvariant(pool.amp, BalancesNoBpt(pool)))

\* A swapGivenOut computed token to token whichever the tokens are.
StableGivenOutMathTokenToToken(pool, tokenIn, tokenOut, amountOut18, invariant) ==
    LET tInIndexNoBpt == AddressIndex(pool.tokensNoBpt, tokenIn)
        tOutIndexNoBpt == AddressIndex(pool.tokensNoBpt, tokenOut)
    IN  MathCall("_calcInGivenOut", amountOut18,
                 << tInIndexNoBpt, tOutIndexNoBpt >>, << >>,
                 _calcInGivenOut(pool.amp, BalancesNoBpt(pool), tInIndexNoBpt,
                     tOutIndexNoBpt, amountOut18, invariant))

\* The swap math of swapGivenOut: which routine, with which arguments.
StableGivenOutMath(pool, tokenIn, tokenOut, amountOut18, invariant) ==
    LET balancesNoBpt == BalancesNoBpt(pool)
        tInIndexNoBpt == AddressIndex(pool.tokensNoBpt, tokenIn)
        tOutIndexNoBpt == AddressIndex(pool.tokensNoBpt, tokenOut)
        bpt == At(pool.tokens, pool.bptIndex).token
        amountsOut == SetAt(Zeros(Len(pool.tokensNoBpt)), tOutIndexNoBpt, amountOut18)
    IN  IF isEqual(tokenIn, bpt)
        THEN MathCall("_calcBptInGivenExactTokensOut", amountOut18,
                      << >>, amountsOut,
                      _calcBptInGivenExactTokensOut(pool.amp, balancesNoBpt,
                          amountsOut, pool.totalShares, invariant, pool.swapFee))
        ELSE IF isEqual(tokenOut, bpt)
        THEN MathCall("_calcTokenInGivenExactBptOut", amountOut18,
                      << tInIndexNoBpt >>, << >>,
                      _calcTokenInGivenExactBptOut(pool.amp, balancesNoBpt,
                          tInIndexNoBpt, amountOut18, pool.totalShares,
                          invariant, pool.swapFee))
        ELSE MathCall("_calcInGivenOut", amountOut18,
                      << tInIndexNoBpt, tOutIndexNoBpt >>, << >>,
                      _calcInGivenOut(pool.amp, balancesNoBpt, tInIndexNoBpt,
                          tOutIndexNoBpt, amountOut18, invariant))

\* A swapGivenOut that compares the amount with the pool limit before it
\* looks whether the pool has the tokens.
StableSwapGivenOutLimitFirst(pool, tokenIn, tokenOut, swapAmount) ==
    LET tInIndex == AddressIndex(pool.tokens, tokenIn)
        tOutIndex == AddressIndex(pool.tokens, tokenOut)
        amountOutWithRate ==
            taMulDownFixed(swapAmount, At(pool.tokens, tOutIndex).rate)
        done(result, calls) == Outcome(result, calls, pool, swapAmount)
        Returning(calls, amountIn) ==
            IF amountIn.amount < 0 THEN done(Throw(InvalidAmount), calls)
            ELSE done(Ret(taDivDownFixed(addSwapFeeAmount(pool.swapFee, amountIn),
                                         At(pool.tokens, tInIndex).rate)), calls)
        AfterMath(invCall, math) ==
            IF ~math.out.ok THEN done(Throw(math.out.error), << invCall, math >>)
            ELSE Returning(<< invCall, math >>,
                           fromScale18Amount(tokenIn, math.out.value, TRUE))
        AfterInvariant(invariant, invCall) ==
            IF ~invariant.ok THEN done(Throw(invariant.error), << invCall >>)
            ELSE IF ~Defined(pool.tokens, pool.bptIndex)
            THEN done(Throw(TypeError), << invCall >>)
            ELSE AfterMath(invCall,
                           StableGivenOutMath(pool, tokenIn, tokenOut,
                               amountOutWithRate.scale18, invariant.value))
        WithInvariant(invariant) ==
            AfterInvariant(invariant,
                           MathCall("_calculateInvariant", 0, << >>,
                                    BalancesNoBpt(pool), invariant))
    IN  IF tOutIndex >= 0 /\ exceedsPoolLimit(pool, tOutIndex, swapAmount)
        THEN done(Throw(ExceedsPoolLimit), << >>)
        ELSE IF tInIndex < 0 \/ tOutIndex < 0 THEN done(Throw(UnknownToken), << >>)
        ELSE WithInvariant(_calculateInvariant(pool.amp, BalancesNoBpt(pool)))

\* StablePool.swapGivenOut
StableSwapGivenOut(pool, tokenIn, tokenOut, swapAmount) ==
    LET tInIndex == AddressIndex(pool.tokens, tokenIn)
        tOutIndex == AddressIndex(pool.tokens, tokenOut)
        amountOutWithRate ==
            taMulDownFixed(swapAmount, At(pool.tokens, tOutIndex).rate)
        done(result, calls) == Outcome(result, calls, pool, swapAmount)
        Returning(calls, amountIn) ==
            IF amountIn.amount < 0 THEN done(Throw(InvalidAmount), calls)
            ELSE done(Ret(taDivDownFixed(addSwapFeeAmount(pool.swapFee, amountIn),
                                         At(pool.tokens, tInIndex).rate)), calls)
        AfterMath(invCall, math) ==
            IF ~math.out.ok THEN done(Throw(math.out.error), << invCall, math >>)
            ELSE Returning(<< invCall, math >>,
                           fromScale18Amount(tokenIn, math.out.value, TRUE))
        AfterInvariant(invariant, invCall) ==
            IF ~invariant.ok THEN done(Throw(invariant.error), << invCall >>)
            ELSE IF ~Defined(pool.tokens, pool.bptIndex)
            THEN done(Throw(TypeError), << invCall >>)
            ELSE AfterMath(invCall,
                           StableGivenOutMath(pool, tokenIn, tokenOut,
                               amountOutWithRate.scale18, invariant.value))
        WithInvariant(invariant) ==
            AfterInvariant(invariant,
                           MathCall("_calculateInvariant", 0, << >>,
                                    BalancesNoBpt(pool), invariant))
    IN  IF tInIndex < 0 \/ tOutIndex < 0 THEN done(Throw(UnknownToken), << >>)
        ELSE IF exceedsPoolLimit(pool, tOutIndex, swapAmount)
        THEN done(Throw(ExceedsPoolLimit), << >>)
        ELSE WithInvariant(_calculateInvariant(pool.amp, BalancesNoBpt(pool)))

\* StablePool.getLimitAmountSwap; swapKind is "GivenIn" or "GivenOut".
StableGetLimitAmountSwap(pool, tokenIn, tokenOut, swapKind) ==
    LET tInIndex == AddressIndex(pool.tokens, tokenIn)
        tOutIndex == AddressIndex(pool.tokens, tokenOut)
        tIn == At(pool.tokens, tInIndex)
        tOut == At(pool.tokens, tOutIndex)
        done(result) == Outcome(result, << >>, pool, swapKind)
    IN  IF tInIndex < 0 \/ tOutIndex < 0 THEN done(Throw(UnknownToken))
        ELSE IF swapKind = "GivenIn"
        THEN done(RetInt(BigDiv(tIn.amount * ALMOST_ONE, tIn.rate)))
        ELSE done(RetInt(BigDiv(tOut.amount * ALMOST_ONE, tOut.rate)))

\* StablePool.getNormalizedLiquidity
StableGetNormalizedLiquidity(pool, tokenIn, tokenOut) ==
    LET tInIndex == AddressIndex(pool.tokens, tokenIn)
        tOutIndex == AddressIndex(pool.tokens, tokenOut)
        done(result) == Outcome(result, << >>, pool, "")
    IN  IF tInIndex < 0 \/ tOutIndex < 0 THEN done(Throw(UnknownToken))
        ELSE done(RetInt(At(pool.tokens, tOutIndex).amount * pool.amp))

\* ------------------------------------------------------------------------
\* LinearPool operations
\* ------------------------------------------------------------------------

\* A conversion: the math routine invoked, what it yielded, and the token and
\* rounding direction with which the result is turned into a TokenAmount.
Conversion(fn, amount18, out, token, roundUp) ==
    [call |-> MathCall(fn, amount18, << >>, << >>, out), out |-> out,
     token |-> token, roundUp |-> roundUp]

_exactMainTokenInForWrappedOut(pool, swapAmount) ==
    Conversion("_calcWrappedOutPerMainIn", swapAmount.scale18,
        _calcWrappedOutPerMainIn(swapAmount.scale18, pool.mainToken.scale18, pool.params),
        pool.wrappedToken.token, FALSE)

_exactMainTokenInForBptOut(pool, swapAmount) ==
    Conversion("_calcBptOutPerMainIn", swapAmount.scale18,
        _calcBptOutPerMainIn(swapAmount.scale18, pool.mainToken.scale18,
            pool.wrappedToken.scale18, pool.bptToken.virtualBalance, pool.params),
        pool.bptToken.token, FALSE)

_exactWrappedTokenInForMainOut(pool, swapAmount) ==
    Conversion("_calcMainOutPerWrappedIn", swapAmount.scale18,
        _calcMainOutPerWrappedIn(swapAmount.scale18, pool.mainToken.scale18, pool.params),
        pool.mainToken.token, FALSE)

_exactWrappedTokenInForBptOut(pool, swapAmount) ==
    Conversion("_calcBptOutPerWrappedIn", swapAmount.scale18,
        _calcBptOutPerWrappedIn(swapAmount.scale18, pool.mainToken.scale18,
            pool.wrappedToken.scale18, pool.bptToken.virtualBalance, pool.params),
        pool.bptToken.token, FALSE)

_exactBptInForMainOut(pool, swapAmount) ==
    Conversion("_calcMainOutPerBptIn", swapAmount.scale18,
        _calcMainOutPerBptIn(swapAmount.scale18, pool.mainToken.scale18,
            pool.wrappedToken.scale18, pool.bptToken.virtualBalance, pool.params),
        pool.mainToken.token, FALSE)

_exactBptInForWrappedOut(pool, swapAmount) ==
    Conversion("_calcWrappedOutPerBptIn", swapAmount.scale18,
        _calcWrappedOutPerBptIn(swapAmount.scale18, pool.mainToken.scale18,
            pool.wrappedToken.scale18, pool.bptToken.virtualBalance, pool.params),
        pool.wrappedToken.token, FALSE)

_mainTokenInForExactWrappedOut(pool, swapAmount) ==
    Conversion("_calcMainInPerWrappedOut", swapAmount.scale18,
        _calcMainInPerWrappedOut(swapAmount.scale18, pool.mainToken.scale18, pool.params),
        pool.mainToken.token, TRUE)

_mainTokenInForExactBptOut(pool, swapAmount) ==
    Conversion("_calcMainInPerBptOut", swapAmount.scale18,
        _calcMainInPerBptOut(swapAmount.scale18, pool.mainToken.scale18,
            pool.wrappedToken.scale18, pool.bptToken.virtualBalance, pool.params),
        pool.mainToken.token, TRUE)

_wrappedTokenInForExactMainOut(pool, swapAmount) ==
    Conversion("_calcWrappedInPerMainOut", swapAmount.scale18,
        _calcWrappedInPerMainOut(swapAmount.scale18, pool.mainToken.scale18, pool.params),
        pool.wrappedToken.token, TRUE)

_wrappedTokenInForExactBptOut(pool, swapAmount) ==
    Conversion("_calcWrappedInPerBptOut", swapAmount.scale18,
        _calcWrappedInPerBptOut(swapAmount.scale18, pool.mainToken.scale18,
            pool.wrappedToken.scale18, pool.bptToken.virtualBalance, pool.params),
        pool.wrappedToken.token, TRUE)

_bptInForExactMainOut(pool, swapAmount) ==
    Conversion("_calcBptInPerMainOut", swapAmount.scale18,
        _calcBptInPerMainOut(swapAmount.scale18, pool.mainToken.scale18,
            pool.wrappedToken.scale18, pool.bptToken.virtualBalance, pool.params),
        pool.bptToken.token, TRUE)

_bptInForExactWrappedOut(pool, swapAmount) ==
    Conversion("_calcBptInPerWrappedOut", swapAmount.scale18,
        _calcBptInPerWrappedOut(swapAmount.scale18, pool.mainToken.scale18,
            pool.wrappedToken.scale18, pool.bptToken.virtualBalance, pool.params),
        pool.bptToken.token, TRUE)

\* return TokenAmount.fromScale18Amount(token, tokenOutScale18, roundUp)
Converted(conv) ==
    LET ta == fromScale18Amount(conv.token, conv.out.value, conv.roundUp)
    IN  IF ~conv.out.ok THEN Throw(conv.out.error)
        ELSE IF ta.amount < 0 THEN Throw(InvalidAmount)
        ELSE Ret(ta)

NoConversion == Conversion("", 0, Thrown(UnknownToken), NoToken, FALSE)

\* The branches of swapGivenIn.
LinearGivenInRoute(pool, tokenIn, tokenOut, swapAmount) ==
    IF isEqual(tokenIn, pool.mainToken.token)
    THEN IF isEqual(tokenOut, pool.wrappedToken.token)
         THEN _exactMainTokenInForWrappedOut(pool, swapAmount)
         ELSE _exactMainTokenInForBptOut(pool, swapAmount)
    ELSE IF isEqual(tokenIn, pool.wrappedToken.token)
    THEN IF isEqual(tokenOut, pool.mainToken.token)
         THEN _exactWrappedTokenInForMainOut(pool, swapAmount)
         ELSE _exactWrappedTokenInForBptOut(pool, swapAmount)
    ELSE IF isEqual(tokenIn, pool.bptToken.token)
    THEN IF isEqual(tokenOut, pool.mainToken.token)
         THEN _exactBptInForMainOut(pool, swapAmount)
         ELSE _exactBptInForWrappedOut(pool, swapAmount)
    ELSE NoConversion

\* A routing of swapGivenOut on tokenIn alone.
LinearGivenOutRouteByTokenIn(pool, tokenIn, tokenOut, swapAmount) ==
    IF isEqual(tokenIn, pool.mainToken.token)
    THEN _mainTokenInForExactWrappedOut(pool, swapAmount)
    ELSE IF isEqual(tokenIn, pool.wrappedToken.token)
    THEN _wrappedTokenInForExactMainOut(pool, swapAmount)
    ELSE IF isEqual(tokenIn, pool.bptToken.token)
    THEN _bptInForExactMainOut(pool, swapAmount)
    ELSE NoConversion

\* The branches of swapGivenOut.
LinearGivenOutRoute(pool, tokenIn, tokenOut, swapAmount) ==
    IF isEqual(tokenIn, pool.mainToken.token)
    THEN IF isEqual(tokenOut, pool.wrappedToken.token)
         THEN _mainTokenInForExactWrappedOut(pool, swapAmount)
         ELSE _mainTokenInForExactBptOut(pool, swapAmount)
    ELSE IF isEqual(tokenIn, pool.wrappedToken.token)
    THEN IF isEqual(tokenOut, pool.mainToken.token)
         THEN _wrappedTokenInForExactMainOut(pool, swapAmount)
         ELSE _wrappedTokenInForExactBptOut(pool, swapAmount)
    ELSE IF isEqual(tokenIn, pool.bptToken.token)
    THEN IF isEqual(tokenOut, pool.mainToken.token)
         THEN _bptInForExactMainOut(pool, swapAmount)
         ELSE _bptInForExactWrappedOut(pool, swapAmount)
    ELSE NoConversion

\* LinearPool.swapGivenIn
LinearSwapGivenIn(pool, tokenIn, tokenOut, swapAmount) ==
    LET tOutIndex == AddressIndex(tokens(pool), tokenOut)
        done(result, calls) == Outcome(result, calls, pool, swapAmount)
        Checked(output, calls) ==
            IF ~output.ok THEN done(output, calls)
            ELSE IF ~Defined(tokens(pool), tOutIndex)
            THEN done(Throw(TypeError), calls)
            ELSE IF exceedsPoolLimit(pool, tOutIndex, output)
            THEN done(Throw(ExceedsPoolLimit), calls)
            ELSE done(output, calls)
        Routed(conv) ==
            IF conv.call.fn = "" THEN done(Throw(UnknownToken), << >>)
            ELSE Checked(Converted(conv), << conv.call >>)
    IN  Routed(LinearGivenInRoute(pool, tokenIn, tokenOut, swapAmount))

\* LinearPool.swapGivenOut
LinearSwapGivenOut(pool, tokenIn, tokenOut, swapAmount) ==
    LET tOutIndex == AddressIndex(tokens(pool), tokenOut)
        done(result, calls) == Outcome(result, calls, pool, swapAmount)
        Routed(conv) ==
            IF conv.call.fn = "" THEN done(Throw(UnknownToken), << >>)
            ELSE done(Converted(conv), << conv.call >>)
    IN  IF ~Defined(tokens(pool), tOutIndex) THEN done(Throw(TypeError), << >>)
        ELSE IF exceedsPoolLimit(pool, tOutIndex, swapAmount)
        THEN done(Throw(ExceedsPoolLimit), << >>)
        ELSE Routed(LinearGivenOutRoute(pool, tokenIn, tokenOut, swapAmount))

\* LinearPool.getLimitAmountSwap; swapKind is "GivenIn" or "GivenOut".
LinearGetLimitAmountSwap(pool, tokenIn, tokenOut, swapKind) ==
    LET tInIndex == AddressIndex(tokens(pool), tokenIn)
        tOutIndex == AddressIndex(tokens(pool), tokenOut)
        tOut == At(tokens(pool), tOutIndex)
        amount == fromRawAmount(tokenOut, BigDiv(tOut.amount * ALMOST_ONE, ONE))
        done(result, calls) == Outcome(result, calls, pool, swapKind)
        Quoted(swap) ==
            IF swap.result.ok THEN done(RetInt(swap.result.amount), swap.calls)
            ELSE done(swap.result, swap.calls)
    IN  IF tInIndex < 0 \/ tOutIndex < 0 THEN done(Throw(UnknownToken), << >>)
        ELSE IF swapKind = "GivenIn"
        THEN IF isEqual(tokenOut, pool.bptToken.token)
             THEN done(RetInt(MAX_TOKEN_BALANCE), << >>)
             ELSE Quoted(LinearSwapGivenOut(pool, tokenIn, tokenOut, amount))
        ELSE IF isEqual(tokenOut, pool.bptToken.token)
        THEN done(RetInt(BigDiv(tOut.amount * MAX_RATIO, ONE)), << >>)
        ELSE done(RetInt(BigDiv(tOut.amount * ALMOST_ONE, ONE)), << >>)

\* LinearPool.getNormalizedLiquidity
LinearGetNormalizedLiquidity(pool, tokenIn, tokenOut) ==
    LET tInIndex == AddressIndex(tokens(pool), tokenIn)
        tOutIndex == AddressIndex(tokens(pool), tokenOut)
        done(result) == Outcome(result, << >>, pool, "")
    IN  IF tInIndex < 0 \/ tOutIndex < 0 THEN done(Throw(UnknownToken))
        ELSE done(RetInt(At(tokens(pool), tOutIndex).amount))

\* ------------------------------------------------------------------------
\* Dispatch on the pool archetype
\* ------------------------------------------------------------------------

fromRawPool(raw) ==
    IF raw.poolType = "AaveLinear" THEN LinearFromRawPool(raw)
    ELSE StableFromRawPool(raw)

swapGivenIn(pool, tokenIn, tokenOut, swapAmount) ==
    IF pool.kind = "Linear" THEN LinearSwapGivenIn(pool, tokenIn, tokenOut, swapAmount)
    ELSE StableSwapGivenIn(pool, tokenIn, tokenOut, swapAmount)

swapGivenOut(pool, tokenIn, tokenOut, swapAmount) ==
    IF pool.kind = "Linear" THEN LinearSwapGivenOut(pool, tokenIn, tokenOut, swapAmount)
    ELSE StableSwapGivenOut(pool, tokenIn, tokenOut, swapAmount)

getLimitAmountSwap(pool, tokenIn, tokenOut, swapKind) ==
    IF pool.kind = "Linear"
    THEN LinearGetLimitAmountSwap(pool, tokenIn, tokenOut, swapKind)
    ELSE StableGetLimitAmountSwap(pool, tokenIn, tokenOut, swapKind)

getNormalizedLiquidity(pool, tokenIn, tokenOut) ==
    IF pool.kind = "Linear" THEN LinearGetNormalizedLiquidity(pool, tokenIn, tokenOut)
    ELSE StableGetNormalizedLiquidity(pool, tokenIn, tokenOut)

\* ------------------------------------------------------------------------
\* Raw pool records handed in by the pool-state provider
\* ------------------------------------------------------------------------

AddrA == "0xA"

AddrB == "0xB"

AddrPool == "0xP"

AddrUnknown == "0xU"

RawToken(address, decimals, index, balance, priceRate) ==
    [address |-> address, decimals |-> decimals, index |-> index,
     balance |-> balance, priceRate |-> IF priceRate = 0 THEN 100 ELSE priceRate,
     hasPriceRate |-> priceRate # 0]

\* The on-chain index of the k-th ordinary token when the liquidity token
\* sits at index bptPos.
OrdinaryIndex(k, bptPos) == IF k < bptPos THEN k ELSE k + 1

Reverse(seq) == [k \in 1 .. Len(seq) |-> seq[Len(seq) + 1 - k]]

Listed(seq, reversed) == IF reversed THEN Reverse(seq) ELSE seq

\* Decimal strings of the record are given in hundredths (swapFee, priceRate,
\* totalShares) and balances in whole tokens.
RawStablePool(bptPos, reversed, balanceA, rateB, swapFee, bptHeld) ==
    [poolType |-> "ComposableStable",
     id |-> PoolId(AddrPool, PoolIdLength), address |-> AddrPool,
     tokens |-> Listed(sortByIndex(<<
         RawToken(AddrA, FullDecimals, OrdinaryIndex(0, bptPos), balanceA, 100),
         RawToken(AddrB, FullDecimals - 1, OrdinaryIndex(1, bptPos),
                  MaxBalance - 1, rateB),
         RawToken(AddrPool, FullDecimals, bptPos, bptHeld, 100) >>), reversed),
     totalShares |-> 700, amp |-> 1, swapFee |-> swapFee]

\* Pools near parity, and lopsided pools: much of token A against a token B
\* whose price rate is 0.01.
RawStablePools ==
    { RawStablePool(bptPos, reversed, MaxBalance, rateB, swapFee, bptHeld) :
        bptPos \in 0 .. 2, reversed \in BOOLEAN, rateB \in {100, 150},
        swapFee \in {0, 5}, bptHeld \in {1, 4 * MaxBalance} }
    \cup
    { RawStablePool(bptPos, FALSE, 4 * MaxBalance - 1, 1, swapFee, 4 * MaxBalance) :
        bptPos \in 0 .. 2, swapFee \in {0, 5} }

\* perm gives the on-chain indices of << main, wrapped, liquidity token >>;
\* band gives << lowerTarget, upperTarget >> in whole main tokens.
RawLinearPool(perm, reversed, rateW, swapFee, band) ==
    [poolType |-> "AaveLinear",
     id |-> PoolId(AddrPool, PoolIdLength), address |-> AddrPool,
     tokens |-> Listed(sortByIndex(<<
         RawToken(AddrA, FullDecimals - 1, perm[1], MaxBalance, 0),
         RawToken(AddrB, FullDecimals, perm[2], MaxBalance - 1, rateW),
         RawToken(AddrPool, FullDecimals, perm[3], 30, 100) >>), reversed),
     mainIndex |-> perm[1], wrappedIndex |-> perm[2],
     lowerTarget |-> band[1], upperTarget |-> band[2],
     swapFee |-> swapFee, poolTypeVersion |-> 1]

Perms == { p \in [1 .. 3 -> 0 .. 2] : \A i, j \in 1 .. 3 : p[i] = p[j] => i = j }

RawLinearPools ==
    { RawLinearPool(perm, reversed, rateW, swapFee, band) :
        perm \in Perms, reversed \in BOOLEAN, rateW \in {0, 150},
        swapFee \in {0, 5}, band \in { <<2, 6>>, <<5, 7>> } }

\* Records whose id is a character short, a character long, or the pool's
\* address instead of its id.
MisidentifiedPools ==
    { [record EXCEPT !.id = PoolId(AddrPool, length)] :
        record \in { r \in RawStablePools \cup RawLinearPools :
                        r.tokens = OrderedTokens(r) },
        length \in {PoolIdLength - 1, PoolIdLength + 1, AddressLength} }

RawPools == RawStablePools \cup RawLinearPools \cup MisidentifiedPools

\* The tokens a caller asks about: the tokens of the record, a token of no
\* pool, and the address of a pool token on another chain.
RequestTokens(raw) ==
    { Token(1, raw.tokens[k].address, raw.tokens[k].decimals) :
        k \in 1 .. Len(raw.tokens) }
    \cup { Token(1, AddrUnknown, FullDecimals), Token(2, AddrA, FullDecimals) }

\* Native amounts of a swap request: nothing, small odd amounts, and
\* multiples of one and a half full-precision tokens.
SwapAmounts == {0, 7, 33} \cup { 150 * k : k \in 1 .. MaxSwapSteps }

SwapKinds == { "GivenIn", "GivenOut" }

\* ------------------------------------------------------------------------
\* The state machine
\* ------------------------------------------------------------------------

VARIABLES
    raw,     \* the raw pool record, as the provider's object currently is
    pool,    \* the pool built from it, NoPool before
    phase,   \* "raw", then "ready" or "failed"
    last,    \* the call just made on the pool and what it left behind,
             \* NoCall once the caller has taken the result
    requests \* the quote request of each concurrent requester

vars == << raw, pool, phase, last, requests >>

\* Largest number of requesters quoting against one pool at the same time.
MaxRequesters == 2

Requesters == 1 .. MaxRequesters

\* A requester with no request outstanding.
Idle ==
    [pc |-> "idle", op |-> "", tokenIn |-> NoToken, tokenOut |-> NoToken,
     arg |-> "", result |-> Throw("")]

NoCall ==
    [op |-> "", tokenIn |-> NoToken, tokenOut |-> NoToken, arg |-> "",
     result |-> Throw(""), calls |-> << >>, argAfter |-> ""]

Called(op, tokenIn, tokenOut, arg, outcome) ==
    [op |-> op, tokenIn |-> tokenIn, tokenOut |-> tokenOut, arg |-> arg,
     result |-> outcome.result, calls |-> outcome.calls,
     argAfter |-> outcome.swapAmount]

Init ==
    /\ raw \in RawPools
    /\ pool = NoPool
    /\ phase = "raw"
    /\ last = NoCall
    /\ requests = [r \in Requesters |-> Idle]

\* Pool.fromRawPool(raw): sorts the record's token list in place, then builds.
FromRawPool ==
    /\ phase = "raw"
    /\ LET built == fromRawPool(raw)
       IN  /\ pool' = built.pool
           /\ phase' = IF built.ok THEN "ready" ELSE "failed"
    /\ raw' = [raw EXCEPT !.tokens = OrderedTokens(raw)]
    /\ last' = NoCall
    /\ UNCHANGED requests

\* The pool with the amount added to what it holds of the token.
Credited(p, token, amount) ==
    IF p.kind = "Stable"
    THEN [p EXCEPT !.tokens =
             [k \in 1 .. Len(p.tokens) |->
                 IF p.tokens[k].token.address = token.address
                 THEN [p.tokens[k] EXCEPT !.amount = p.tokens[k].amount + amount]
                 ELSE p.tokens[k]]]
    ELSE IF p.mainToken.token.address = token.address
    THEN [p EXCEPT !.mainToken.amount = p.mainToken.amount + amount]
    ELSE [p EXCEPT !.wrappedToken.amount = p.wrappedToken.amount + amount]

\* A swapGivenIn that books the input it quoted into the pool's balances.
SwapGivenInBookingTheInput ==
    /\ phase = "ready"
    /\ last = NoCall
    /\ \E tokenIn \in RequestTokens(raw), tokenOut \in RequestTokens(raw),
          amount \in SwapAmounts :
          LET swapAmount == fromRawAmount(tokenIn, amount)
              outcome == swapGivenIn(pool, tokenIn, tokenOut, swapAmount)
          IN  /\ pool' = IF outcome.result.ok
                         THEN Credited(outcome.pool, tokenIn, amount)
                         ELSE outcome.pool
              /\ last' = Called("swapGivenIn", tokenIn, tokenOut, swapAmount, outcome)
    /\ UNCHANGED << raw, phase, requests >>

SwapGivenIn ==
    /\ phase = "ready"
    /\ last = NoCall
    /\ \E tokenIn \in RequestTokens(raw), tokenOut \in RequestTokens(raw),
          amount \in SwapAmounts :
          LET swapAmount == fromRawAmount(tokenIn, amount)
              outcome == swapGivenIn(pool, tokenIn, tokenOut, swapAmount)
          IN  /\ pool' = outcome.pool
              /\ last' = Called("swapGivenIn", tokenIn, tokenOut, swapAmount, outcome)
    /\ UNCHANGED << raw, phase, requests >>

SwapGivenOut ==
    /\ phase = "ready"
    /\ last = NoCall
    /\ \E tokenIn \in RequestTokens(raw), tokenOut \in RequestTokens(raw),
          amount \in SwapAmounts :
          LET swapAmount == fromRawAmount(tokenOut, amount)
              outcome == swapGivenOut(pool, tokenIn, tokenOut, swapAmount)
          IN  /\ pool' = outcome.pool
              /\ last' = Called("swapGivenOut", tokenIn, tokenOut, swapAmount, outcome)
    /\ UNCHANGED << raw, phase, requests >>

GetLimitAmountSwap ==
    /\ phase = "ready"
    /\ last = NoCall
    /\ \E tokenIn \in RequestTokens(raw), tokenOut \in RequestTokens(raw),
          swapKind \in SwapKinds :
          LET outcome == getLimitAmountSwap(pool, tokenIn, tokenOut, swapKind)
          IN  /\ pool' = outcome.pool
              /\ last' = Called("getLimitAmountSwap", tokenIn, tokenOut, swapKind,
                                outcome)
    /\ UNCHANGED << raw, phase, requests >>

GetNormalizedLiquidity ==
    /\ phase = "ready"
    /\ last = NoCall
    /\ \E tokenIn \in RequestTokens(raw), tokenOut \in RequestTokens(raw) :
          LET outcome == getNormalizedLiquidity(pool, tokenIn, tokenOut)
          IN  /\ pool' = outcome.pool
              /\ last' = Called("getNormalizedLiquidity", tokenIn, tokenOut, "",
                                outcome)
    /\ UNCHANGED << raw, phase, requests >>

\* StablePool.subtractSwapFeeAmount is a public method of the pool.
SubtractSwapFeeAmount ==
    /\ phase = "ready"
    /\ last = NoCall
    /\ pool.kind = "Stable"
    /\ \E token \in RequestTokens(raw), rawAmount \in SwapAmounts :
          LET amount == fromRawAmount(token, rawAmount)
              outcome == Outcome(Ret(subtractSwapFeeAmount(pool.swapFee, amount)),
                                 << >>, pool, amount)
          IN  /\ pool' = outcome.pool
              /\ last' = Called("subtractSwapFeeAmount", token, token, amount, outcome)
    /\ UNCHANGED << raw, phase, requests >>

\* StablePool.addSwapFeeAmount is a public method of the pool.
AddSwapFeeAmount ==
    /\ phase = "ready"
    /\ last = NoCall
    /\ pool.kind = "Stable"
    /\ \E token \in RequestTokens(raw), rawAmount \in SwapAmounts :
          LET amount == fromRawAmount(token, rawAmount)
              outcome == Outcome(Ret(addSwapFeeAmount(pool.swapFee, amount)),
                                 << >>, pool, amount)
          IN  /\ pool' = outcome.pool
              /\ last' = Called("addSwapFeeAmount", token, token, amount, outcome)
    /\ UNCHANGED << raw, phase, requests >>

\* The caller takes the result of the call; the pool is ready for the next.
TakeResult ==
    /\ last # NoCall
    /\ last' = NoCall
    /\ UNCHANGED << raw, pool, phase, requests >>

Next ==
    \/ FromRawPool
    \/ SwapGivenIn
    \/ SwapGivenOut
    \/ GetLimitAmountSwap
    \/ GetNormalizedLiquidity
    \/ SubtractSwapFeeAmount
    \/ AddSwapFeeAmount
    \/ TakeResult

Spec == Init /\ [][Next]_vars

\* ------------------------------------------------------------------------
\* Concurrent quote requests against one pool object.  A pool method is
\* synchronous: once started it runs to its return, so requests interleave
\* call by call, in any order, whoever issued them first.
\* ------------------------------------------------------------------------

\* The quote requests a requester may issue: each method, on the pairs of
\* neighbouring tokens of the record.
QuoteOps == { "swapGivenIn", "swapGivenOut", "getLimitAmountSwap" }

QuotePairs(record) ==
    { << Token(1, record.tokens[k].address, record.tokens[k].decimals),
         Token(1, record.tokens[k + 1].address, record.tokens[k + 1].decimals) >> :
        k \in 1 .. Len(record.tokens) - 1 }

\* The argument of the request: the amount of a swap, the kind of a limit.
QuoteArg(op, tokenIn, tokenOut) ==
    IF op = "swapGivenIn" THEN fromRawAmount(tokenIn, 150)
    ELSE IF op = "swapGivenOut" THEN fromRawAmount(tokenOut, 7)
    ELSE "GivenIn"

\* The method the request names, called on the pool p.
Quote(p, request) ==
    IF request.op = "swapGivenIn"
    THEN swapGivenIn(p, request.tokenIn, request.tokenOut, request.arg)
    ELSE IF request.op = "swapGivenOut"
    THEN swapGivenOut(p, request.tokenIn, request.tokenOut, request.arg)
    ELSE getLimitAmountSwap(p, request.tokenIn, request.tokenOut, request.arg)

\* Records are taken with their token list in on-chain order.
ConcurrentInit ==
    /\ Init
    /\ raw.tokens = OrderedTokens(raw)

\* Requester r issues a request; it runs when r is next scheduled.
Issue(r) ==
    /\ phase = "ready"
    /\ requests[r].pc = "idle"
    /\ \E op \in QuoteOps, pair \in QuotePairs(raw) :
          requests' = [requests EXCEPT ![r] =
              [pc |-> "pending", op |-> op, tokenIn |-> pair[1],
               tokenOut |-> pair[2], arg |-> QuoteArg(op, pair[1], pair[2]),
               result |-> Throw("")]]
    /\ UNCHANGED << raw, pool, phase, last >>

\* A run of the request that books what it quoted into the pool's balances.
RunBookingTheQuote(r) ==
    /\ requests[r].pc = "pending"
    /\ LET outcome == Quote(pool, requests[r])
       IN  /\ pool' = IF outcome.result.ok /\ requests[r].op # "getLimitAmountSwap"
                      THEN Credited(outcome.pool, requests[r].tokenIn,
                                    outcome.result.amount)
                      ELSE outcome.pool
           /\ requests' = [requests EXCEPT ![r].pc = "returned",
                                           ![r].result = outcome.result]
    /\ UNCHANGED << raw, phase, last >>

\* The request of r runs against the pool object as it is now.
Run(r) ==
    /\ requests[r].pc = "pending"
    /\ LET outcome == Quote(pool, requests[r])
       IN  /\ pool' = outcome.pool
           /\ requests' = [requests EXCEPT ![r].pc = "returned",
                                           ![r].result = outcome.result]
    /\ UNCHANGED << raw, phase, last >>

\* Requester r takes its result.
Collect(r) ==
    /\ requests[r].pc = "returned"
    /\ requests' = [requests EXCEPT ![r] = Idle]
    /\ UNCHANGED << raw, pool, phase, last >>

ConcurrentNext ==
    \/ FromRawPool
    \/ \E r \in Requesters : Issue(r)
    \/ \E r \in Requesters : Run(r)
    \/ \E r \in Requesters : Collect(r)

ConcurrentSpec == ConcurrentInit /\ [][ConcurrentNext]_vars

\* ------------------------------------------------------------------------
\* Dispatch of a raw pool record on its archetype tag
\* ------------------------------------------------------------------------

UnsupportedPoolType == "UnsupportedPoolType"

\* utils/pool: the archetype tag of each pool type name of the API.
poolTypeFromApi ==
    [WEIGHTED |-> "Weighted", PHANTOM_STABLE |-> "ComposableStable",
     GYRO3 |-> "Gyro3", GYRO2 |-> "Gyro2", GYROE |-> "GyroE"]

\* poolTypeFromApi[type]: undefined for a type name the table does not have.
ApiTag(type) ==
    IF type \in DOMAIN poolTypeFromApi THEN poolTypeFromApi[type] ELSE "undefined"

\* A comparison of the record's tag with the type name of the API.
isPoolForApiType(record) == record.poolType = "WEIGHTED"

\* WeightedPoolFactory.isPoolForFactory
isPoolForFactory(record) == record.poolType = "Weighted"

\* WeightedPool.fromRawPool: the pool of the weighted archetype.
WeightedFromRawPool(record) ==
    LET address == getPoolAddress(record.id)
        orderedTokens == OrderedTokens(record)
    IN  IF ~address.ok THEN NotBuilt(address.error)
        ELSE Built([kind |-> "Weighted", id |-> record.id,
                    address |-> address.address,
                    swapFee |-> unsafeFastParseEther(record.swapFee),
                    tokens |-> [k \in 1 .. Len(orderedTokens) |->
                        fromHumanAmount(Token(1, orderedTokens[k].address,
                                              orderedTokens[k].decimals),
                                        orderedTokens[k].balance)]])

\* WeightedPoolFactory.create
create(record) == WeightedFromRawPool(record)

\* The dispatch function: the implementation matching the tag, or
\* UnsupportedPoolType.
parseRawPool(record) ==
    IF isPoolForFactory(record) THEN create(record)
    ELSE IF record.poolType = "ComposableStable" THEN StableFromRawPool(record)
    ELSE IF record.poolType = "AaveLinear" THEN LinearFromRawPool(record)
    ELSE NotBuilt(UnsupportedPoolType)

\* Records as the provider tags them: as they are, as weighted pools, and
\* with a type name the API table does not have.
TaggedRecords ==
    RawPools \cup { [record EXCEPT !.poolType = ApiTag(type)] :
                      record \in RawPools, type \in {"WEIGHTED", "UNKNOWN"} }

DispatchInit ==
    /\ raw \in TaggedRecords
    /\ pool = NoPool
    /\ phase = "raw"
    /\ last = NoCall
    /\ requests = [r \in Requesters |-> Idle]

ParseRawPool ==
    /\ phase = "raw"
    /\ last = NoCall
    /\ LET built == parseRawPool(raw)
       IN  /\ pool' = built.pool
           /\ phase' = IF built.ok THEN "ready" ELSE "failed"
           /\ last' = Called("parseRawPool", NoToken, NoToken, "",
                             Outcome(IF built.ok THEN RetInt(0)
                                     ELSE Throw(built.error),
                                     << >>, built.pool, ""))
    /\ raw' = [raw EXCEPT !.tokens = OrderedTokens(raw)]
    /\ UNCHANGED requests

DispatchNext ==
    \/ ParseRawPool
    \/ TakeResult

DispatchSpec == DispatchInit /\ [][DispatchNext]_vars

\* ------------------------------------------------------------------------
\* Building the exit call of a composable stable pool from a query result
\* ------------------------------------------------------------------------

\* Slippage tolerances, as fractions of ONE: none, 1% and 5%.
Slippages == {0, 1, 5}

\* Slippage.applyTo: the amount with the tolerance on top.
applyTo(slippage, amount) == mulDownFixed(amount, slippage + WAD)

\* Slippage.removeFrom: the amount that reaches `amount` with the tolerance
\* on top.
removeFrom(slippage, amount) == divDownFixed(amount, slippage + WAD)

\* Raw amounts of a query result: a dust amount, an odd amount, and
\* multiples of one and a half full-precision tokens.
ExitAmounts == {1, 33} \cup { 150 * k : k \in 1 .. MaxSwapSteps }

\* The tokens of the pool in on-chain order, the liquidity token at bptIndex.
ExitTokens(bptIndex) ==
    LET addresses == IF bptIndex = 0 THEN << AddrPool, AddrA, AddrB >>
                     ELSE IF bptIndex = 1 THEN << AddrA, AddrPool, AddrB >>
                     ELSE << AddrA, AddrB, AddrPool >>
    IN  [k \in 1 .. 3 |-> Token(1, addresses[k], FullDecimals)]

\* The output of RemoveLiquidityComposableStable.query with the caller's
\* tolerance: the liquidity-token entry of amountsOut is zero; tokenOutIndex
\* is -1 where the query leaves it undefined.
BuildCallInput(kind, bptIndex, tokenOutIndex, bptIn, amounts, slippage) ==
    [removeLiquidityKind |-> kind, bptIndex |-> bptIndex,
     tokenOutIndex |-> tokenOutIndex,
     bptIn |-> fromRawAmount(ExitTokens(bptIndex)[bptIndex + 1], bptIn),
     amountsOut |-> [k \in 1 .. 3 |->
                       fromRawAmount(ExitTokens(bptIndex)[k], amounts[k])],
     slippage |-> slippage]

\* Per-token amounts with nothing at position bptIndex.
ExitVectors(bptIndex, amountSet) ==
    { v \in [1 .. 3 -> amountSet \cup {0}] :
        \A k \in 1 .. 3 : (v[k] = 0) <=> (k = bptIndex + 1) }

\* A single-asset query pays out one token only.
SingleAssetVectors(bptIndex) ==
    { [k \in 1 .. 3 |-> IF k = out + 1 THEN amount ELSE 0] :
        out \in (0 .. 2) \ {bptIndex}, amount \in ExitAmounts }

BuildCallInputs ==
    UNION { { BuildCallInput("Proportional", bptIndex, -1, bptIn, v, slippage) :
                v \in ExitVectors(bptIndex, ExitAmounts) }
            \cup
            { BuildCallInput("Unbalanced", bptIndex, -1, bptIn, v, slippage) :
                v \in ExitVectors(bptIndex, ExitAmounts) }
            \cup
            { BuildCallInput("SingleTokenExactIn", bptIndex,
                             CHOOSE out \in 0 .. 2 : v[out + 1] # 0,
                             bptIn, v, slippage) :
                v \in SingleAssetVectors(bptIndex) } :
            bptIndex \in 0 .. 2, bptIn \in ExitAmounts, slippage \in Slippages }

\* helper getAmountsCall: the limits sent with the call.  The side the query
\* fixed goes as it is; the tolerance is taken on the other side.
getAmountsCall(input) ==
    IF input.removeLiquidityKind = "Unbalanced"
    THEN [minAmountsOut |-> [k \in 1 .. Len(input.amountsOut) |->
                               input.amountsOut[k].amount],
          tokenOutIndex |-> input.tokenOutIndex,
          maxBptAmountIn |-> applyTo(input.slippage, input.bptIn.amount)]
    ELSE [minAmountsOut |-> [k \in 1 .. Len(input.amountsOut) |->
                               removeFrom(input.slippage,
                                          input.amountsOut[k].amount)],
          tokenOutIndex |-> input.tokenOutIndex,
          maxBptAmountIn |-> input.bptIn.amount]

\* buildCall with maxBptIn read from the query's bptIn.
buildCallCappedAtBptIn(input) ==
    LET amounts == getAmountsCall(input)
    IN  [ok |-> TRUE, error |-> "",
         args |-> [minAmountsOut |-> amounts.minAmountsOut,
                   userData |-> [amounts EXCEPT !.minAmountsOut =
                       SubSeq(amounts.minAmountsOut, 1, input.bptIndex)
                       \o SubSeq(amounts.minAmountsOut, input.bptIndex + 2,
                                 Len(amounts.minAmountsOut))]],
         maxBptIn |-> fromRawAmount(input.bptIn.token, input.bptIn.amount),
         minAmountsOut |-> [k \in 1 .. Len(input.amountsOut) |->
             fromRawAmount(input.amountsOut[k].token, amounts.minAmountsOut[k])]]

\* RemoveLiquidityComposableStable.buildCall: the exit arguments carry the
\* limits of every token, the user data the limits without the liquidity
\* token's; maxBptIn and minAmountsOut are the limits as token amounts.
buildCall(input) ==
    LET amounts == getAmountsCall(input)
        amountsWithoutBpt ==
            [amounts EXCEPT !.minAmountsOut =
                SubSeq(amounts.minAmountsOut, 1, input.bptIndex)
                \o SubSeq(amounts.minAmountsOut, input.bptIndex + 2,
                          Len(amounts.minAmountsOut))]
    IN  [ok |-> TRUE, error |-> "",
         args |-> [minAmountsOut |-> amounts.minAmountsOut,
                   userData |-> amountsWithoutBpt],
         maxBptIn |-> fromRawAmount(input.bptIn.token, amounts.maxBptAmountIn),
         minAmountsOut |-> [k \in 1 .. Len(input.amountsOut) |->
             fromRawAmount(input.amountsOut[k].token, amounts.minAmountsOut[k])]]

\* The caller holds a query result with its tolerance; `raw` is that input.
BuildCallInit ==
    /\ raw \in BuildCallInputs
    /\ pool = NoPool
    /\ phase = "queried"
    /\ last = NoCall
    /\ requests = [r \in Requesters |-> Idle]

BuildCall ==
    /\ phase = "queried"
    /\ last = NoCall
    /\ last' = Called("buildCall", NoToken, NoToken, raw,
                      Outcome(buildCall(raw), << >>, NoPool, raw))
    /\ UNCHANGED << raw, pool, phase, requests >>

BuildCallNext ==
    \/ BuildCall
    \/ TakeResult

BuildCallSpec == BuildCallInit /\ [][BuildCallNext]_vars

\* ------------------------------------------------------------------------
\* Stable pool records of any shape: the liquidity token listed anywhere or
\* not at all, and the record's address field beside the id
\* ------------------------------------------------------------------------

AddrOther == "0xQ"

\* Token lists of two or more distinct addresses, in on-chain order.
ListedAddresses ==
    LET addresses == {AddrA, AddrB, AddrPool, AddrOther}
    IN  { s \in UNION { [1 .. n -> addresses] : n \in 2 .. Cardinality(addresses) } :
            \A i, j \in DOMAIN s : s[i] = s[j] => i = j }

\* A record with the id's first 42 characters, the address field and the
\* listed tokens chosen apart; the k-th token holds k whole tokens.
StableRecord(idHead, address, listed, reversed) ==
    [poolType |-> "ComposableStable",
     id |-> PoolId(idHead, PoolIdLength), address |-> address,
     tokens |-> Listed([k \in 1 .. Len(listed) |->
                   RawToken(listed[k], FullDecimals, k - 1, k, 100 + k)],
                   reversed),
     totalShares |-> 700, amp |-> 1, swapFee |-> 5]

StableRecords ==
    { StableRecord(idHead, address, listed, reversed) :
        idHead \in {AddrPool, AddrOther}, address \in {AddrPool, AddrOther},
        listed \in ListedAddresses, reversed \in BOOLEAN }

ConstructInit ==
    /\ raw \in StableRecords
    /\ pool = NoPool
    /\ phase = "raw"
    /\ last = NoCall
    /\ requests = [r \in Requesters |-> Idle]

ConstructNext == FromRawPool

ConstructSpec == ConstructInit /\ [][ConstructNext]_vars

\* ------------------------------------------------------------------------
\* The fee arithmetic of a stable pool over every fee below one
\* ------------------------------------------------------------------------

\* Largest raw amount a fee is taken from or put on.
MaxFeeAmount == 250

FeeAmounts == 0 .. MaxFeeAmount

\* Swap fees from nothing to just under the whole amount.
Fees == 0 .. WAD - 1

FeeToken == Token(1, AddrA, FullDecimals)

\* A stable pool of each fee, built; the caller holds no result yet.
FeeInit ==
    /\ raw \in { [record EXCEPT !.tokens = OrderedTokens(record)] :
                   record \in { RawStablePool(0, FALSE, MaxBalance, 100, fee, 1) :
                                   fee \in Fees } }
    /\ pool = fromRawPool(raw).pool
    /\ phase = "ready"
    /\ last = NoCall
    /\ requests = [r \in Requesters |-> Idle]

\* pool.subtractSwapFeeAmount(amount)
SubtractFee ==
    /\ last = NoCall
    /\ \E rawAmount \in FeeAmounts :
          LET amount == fromRawAmount(FeeToken, rawAmount)
          IN  last' = Called("subtractSwapFeeAmount", FeeToken, FeeToken, amount,
                             Outcome(Ret(subtractSwapFeeAmount(pool.swapFee, amount)),
                                     << >>, pool, amount))
    /\ UNCHANGED << raw, pool, phase, requests >>

\* pool.addSwapFeeAmount(amount)
AddFee ==
    /\ last = NoCall
    /\ \E rawAmount \in FeeAmounts :
          LET amount == fromRawAmount(FeeToken, rawAmount)
          IN  last' = Called("addSwapFeeAmount", FeeToken, FeeToken, amount,
                             Outcome(Ret(addSwapFeeAmount(pool.swapFee, amount)),
                                     << >>, pool, amount))
    /\ UNCHANGED << raw, pool, phase, requests >>

\* pool.subtractSwapFeeAmount(grossed), where grossed is what addSwapFeeAmount
\* just returned; the caller keeps the first call beside the second.
SubtractFeeFromGrossed ==
    /\ last.op = "addSwapFeeAmount"
    /\ last.result.ok
    /\ requests[1] = Idle
    /\ LET grossed == fromRawAmount(last.result.token, last.result.amount)
       IN  last' = Called("subtractSwapFeeAmount", FeeToken, FeeToken, grossed,
                          Outcome(Ret(subtractSwapFeeAmount(pool.swapFee, grossed)),
                                  << >>, pool, grossed))
    /\ requests' = [requests EXCEPT ![1] =
                       [pc |-> "returned", op |-> last.op,
                        tokenIn |-> last.tokenIn, tokenOut |-> last.tokenOut,
                        arg |-> last.arg, result |-> last.result]]
    /\ UNCHANGED << raw, pool, phase >>

FeeNext ==
    \/ SubtractFee
    \/ AddFee
    \/ SubtractFeeFromGrossed

FeeSpec == FeeInit /\ [][FeeNext]_vars

\* ------------------------------------------------------------------------
\* Reading the call just made
\* ------------------------------------------------------------------------

IsSwap == last.op \in {"swapGivenIn", "swapGivenOut"}

\* The token's address is the address of a token of the pool.
Known(token) == AddressIndex(tokens(pool), token) >= 0

\* The pool's entry for the token's address.
Held(token) == At(tokens(pool), AddressIndex(tokens(pool), token))

FailedWith(e) == ~last.result.ok /\ last.result.error = e

\* ------------------------------------------------------------------------
\* C1
\* ------------------------------------------------------------------------

\* C1: in StablePool and LinearPool, swapGivenIn and swapGivenOut fail with
\* the unknown-token error whenever tokenIn or tokenOut has an address that
\* matches no token of the pool, and no amount is returned.
C1_UnknownTokenFails ==
    (IsSwap /\ (~Known(last.tokenIn) \/ ~Known(last.tokenOut)))
        => FailedWith(UnknownToken)

\* ------------------------------------------------------------------------
\* C2
\* ------------------------------------------------------------------------

IsLiquidityToken(entry) == "virtualBalance" \in DOMAIN entry

\* C2: in StablePool and LinearPool, a swapGivenOut between two tokens of
\* the pool fails with the pool-limit error whenever the requested output
\* amount is greater than the amount the pool holds of tokenOut; for the
\* pool's own liquidity token the amount compared is the held amount, not
\* the virtual balance.
C2_SwapGivenOutPoolLimit ==
    (last.op = "swapGivenOut" /\ Known(last.tokenIn) /\ Known(last.tokenOut)
        /\ last.arg.amount > Held(last.tokenOut).amount)
        => FailedWith(ExceedsPoolLimit)

\* A request for more of the liquidity token than the pool holds, yet within
\* its virtual balance, has been rejected with the pool-limit error.
C2_LiquidityTokenOverHeld ==
    /\ last.op = "swapGivenOut"
    /\ Known(last.tokenIn)
    /\ Known(last.tokenOut)
    /\ IsLiquidityToken(Held(last.tokenOut))
    /\ last.arg.amount > Held(last.tokenOut).amount
    /\ last.arg.amount <= Held(last.tokenOut).virtualBalance
    /\ FailedWith(ExceedsPoolLimit)

\* ------------------------------------------------------------------------
\* C3
\* ------------------------------------------------------------------------

\* C3: in StablePool and LinearPool, swapGivenIn never returns an amount
\* larger than the amount the pool holds of tokenOut: a computed output
\* above it fails with the pool-limit error.
C3_SwapGivenInWithinHeld ==
    (last.op = "swapGivenIn" /\ Known(last.tokenIn) /\ Known(last.tokenOut)
        /\ last.result.ok)
        => last.result.amount <= Held(last.tokenOut).amount

\* ------------------------------------------------------------------------
\* C4
\* ------------------------------------------------------------------------

\* The swap math the call invoked: the last routine it ran, when that is
\* not the invariant computation.
SwapMathCall == last.calls[Len(last.calls)]

RanSwapMath == last.calls # << >> /\ SwapMathCall.fn # "_calculateInvariant"

\* The amount less the fee on it, and the amount of which the given amount
\* is what is left after the fee.
NetOfFee(amount) == taSub(amount, taMulUpFixed(amount, pool.swapFee))

GrossedUp(amount) == taDivUpFixed(amount, complementFixed(pool.swapFee))

\* The rate a StablePool applies to a token of a swap; a LinearPool applies
\* none outside its math.
SwapRate(token) == IF pool.kind = "Stable" THEN Held(token).rate ELSE WAD

\* C4 as stated: in every pool implementation, swapGivenIn hands the pool
\* math the input net of the swap fee, and swapGivenOut returns the input
\* computed by the pool math with the swap fee added to it.
C4_FeeAroundMathInEveryPool ==
    /\ (last.op = "swapGivenIn" /\ RanSwapMath)
          => SwapMathCall.amount
               = taMulDownFixed(NetOfFee(last.arg), SwapRate(last.tokenIn)).scale18
    /\ (last.op = "swapGivenOut" /\ last.result.ok)
          => last.result.amount
               = taDivDownFixed(
                     GrossedUp(fromScale18Amount(last.result.token,
                                                 SwapMathCall.out.value, TRUE)),
                     SwapRate(last.tokenIn)).amount

\* C4, amended: StablePool.swapGivenIn hands the pool math the input net of
\* the swap fee, and StablePool.swapGivenOut hands it the requested output
\* as it is and adds the swap fee to the input the math computed; LinearPool
\* hands its math the swap amount as it is, in both directions, and returns
\* the math's result with no fee added or subtracted by the pool.
C4_FeeAroundStableMathOnly ==
    /\ (last.op = "swapGivenIn" /\ pool.kind = "Stable" /\ RanSwapMath)
          => SwapMathCall.amount
               = taMulDownFixed(NetOfFee(last.arg), SwapRate(last.tokenIn)).scale18
    /\ (last.op = "swapGivenOut" /\ pool.kind = "Stable" /\ RanSwapMath)
          => SwapMathCall.amount
               = taMulDownFixed(last.arg, SwapRate(last.tokenOut)).scale18
    /\ (last.op = "swapGivenOut" /\ pool.kind = "Stable" /\ last.result.ok)
          => last.result.amount
               = taDivDownFixed(
                     GrossedUp(fromScale18Amount(last.tokenIn,
                                                 SwapMathCall.out.value, TRUE)),
                     SwapRate(last.tokenIn)).amount
    /\ (IsSwap /\ pool.kind = "Linear" /\ RanSwapMath)
          => SwapMathCall.amount = last.arg.scale18
    /\ (IsSwap /\ pool.kind = "Linear" /\ last.result.ok)
          => last.result.amount
               = fromScale18Amount(last.result.token, SwapMathCall.out.value,
                                   last.op = "swapGivenOut").amount

\* A StablePool with a fee has run its swap math for a swapGivenIn whose
\* input carries a fee of at least one unit.
C4_StableFeeTaken ==
    /\ last.op = "swapGivenIn"
    /\ pool.kind = "Stable"
    /\ RanSwapMath
    /\ last.result.ok
    /\ NetOfFee(last.arg).amount < last.arg.amount

\* ------------------------------------------------------------------------
\* C5
\* ------------------------------------------------------------------------

\* The fee that subtractSwapFeeAmount took out of its argument, and the fee
\* that addSwapFeeAmount put on top of its argument.
FeeTaken == last.arg.amount - last.result.amount

FeeAdded == last.result.amount - last.arg.amount

\* fee is the quotient num / den rounded up, respectively down.
IsRoundedUp(fee, num, den) == fee * den >= num /\ (fee - 1) * den < num

IsRoundedDown(fee, num, den) == fee * den <= num /\ (fee + 1) * den > num

\* The fee taken out of an exact-in input is amount x swapFee rounded up.
FeeTakenRoundsUp ==
    last.op = "subtractSwapFeeAmount"
        => IsRoundedUp(FeeTaken, last.arg.amount * pool.swapFee, WAD)

\* C5 as stated: the fee taken out of an exact-in input is computed
\* rounding up, and the fee added to an exact-out computed input is
\* computed rounding down.
C5_FeeTakenUpFeeAddedDown ==
    /\ FeeTakenRoundsUp
    /\ last.op = "addSwapFeeAmount"
          => IsRoundedDown(FeeAdded, last.arg.amount * pool.swapFee,
                           WAD - pool.swapFee)

\* C5, amended: the fee taken out of an exact-in input is computed rounding
\* up, and the fee added to an exact-out computed input is computed rounding
\* up as well: addSwapFeeAmount returns amount / (1 - swapFee) rounded up.
C5_FeeTakenUpFeeAddedUp ==
    /\ FeeTakenRoundsUp
    /\ last.op = "addSwapFeeAmount"
          => /\ IsRoundedUp(FeeAdded, last.arg.amount * pool.swapFee,
                            WAD - pool.swapFee)
             /\ IsRoundedUp(last.result.amount, last.arg.amount * WAD,
                            WAD - pool.swapFee)

\* addSwapFeeAmount has added a fee that is not a whole number of units
\* before rounding.
C5_FeeAddedInexact ==
    /\ last.op = "addSwapFeeAmount"
    /\ (last.arg.amount * pool.swapFee) % (WAD - pool.swapFee) # 0
    /\ FeeAdded > 0

\* ------------------------------------------------------------------------
\* C6, C7
\* ------------------------------------------------------------------------

\* The token is a token of the pool, by chain and address.
IsPoolToken(token) == Known(token) /\ isEqual(token, Held(token).token)

\* The call was made on an ordered pair of distinct pool tokens.
OnPoolPair ==
    IsPoolToken(last.tokenIn) /\ IsPoolToken(last.tokenOut)
        /\ ~isEqual(last.tokenIn, last.tokenOut)

\* 99% of the amount, rounded down.
AlmostAll(amount) == BigDiv(amount * 99, 100)

\* C6: for every pool implementation and every ordered pair of pool tokens,
\* getLimitAmountSwap with kind GivenIn returns the amount that
\* swapGivenOut(tokenIn, tokenOut, x) yields for x = 99% of the pool's
\* tokenOut balance.
C6_LimitGivenInIsSwapGivenOutOfAlmostAll ==
    (last.op = "getLimitAmountSwap" /\ last.arg = "GivenIn" /\ OnPoolPair)
        => LET x == fromRawAmount(last.tokenOut,
                                  AlmostAll(Held(last.tokenOut).amount))
               swap == swapGivenOut(pool, last.tokenIn, last.tokenOut, x).result
           IN  /\ last.result.ok = swap.ok
               /\ last.result.error = swap.error
               /\ last.result.amount = swap.amount

\* C7: for every pool implementation, getLimitAmountSwap with kind GivenOut
\* returns 99% of the pool's tokenOut balance, rounded down, when tokenOut
\* is an ordinary token, and a multiple greater than one of the tokenOut
\* balance when tokenOut is the pool's own liquidity token.
C7_LimitGivenOutIsShareOfBalance ==
    (last.op = "getLimitAmountSwap" /\ last.arg = "GivenOut" /\ OnPoolPair)
        => /\ last.result.ok
           /\ IF IsLiquidityToken(Held(last.tokenOut))
              THEN \E ratio \in 2 .. 10 :
                      last.result.amount = ratio * Held(last.tokenOut).amount
              ELSE last.result.amount = AlmostAll(Held(last.tokenOut).amount)

\* ------------------------------------------------------------------------
\* C8
\* ------------------------------------------------------------------------

\* The fee a pool puts on an amount outside its math.
FeeOutsideMath == IF pool.kind = "Stable" THEN pool.swapFee ELSE 0

\* C8: in StablePool and LinearPool the amount swapGivenIn returns is the
\* math's normalized result (when not negative) brought to native units and
\* divided by the
\* token's rate with every step rounded down, and the amount swapGivenOut
\* returns is the math's normalized result brought to native units, grossed
\* up by the fee and divided by the token's rate with every step rounded up,
\* so it is never smaller than the exact required input.
C8_OutRoundsDownInRoundsUp ==
    /\ (last.op = "swapGivenIn" /\ last.result.ok /\ RanSwapMath
           /\ SwapMathCall.out.value >= 0)
          => last.result.amount * Scalar(last.result.token)
                 * SwapRate(last.tokenOut)
               <= SwapMathCall.out.value * WAD
    /\ (last.op = "swapGivenOut" /\ last.result.ok /\ RanSwapMath)
          => last.result.amount * Scalar(last.result.token)
                 * SwapRate(last.tokenIn) * (WAD - FeeOutsideMath)
               >= SwapMathCall.out.value * WAD * WAD

\* ------------------------------------------------------------------------
\* C9
\* ------------------------------------------------------------------------

\* The on-chain index the raw record gives the token with this address.
RawIndex(address) ==
    raw.tokens[CHOOSE k \in 1 .. Len(raw.tokens) :
                   raw.tokens[k].address = address].index

\* C9: in a pool built by fromRawPool the tokens list is in ascending order
\* of the raw record's on-chain token index, whatever order the record
\* lists its tokens in, at every read of the pool.
C9_TokensInOnChainOrder ==
    phase = "ready"
        => \A i, j \in 1 .. Len(tokens(pool)) :
              i < j => RawIndex(tokens(pool)[i].token.address)
                         < RawIndex(tokens(pool)[j].token.address)

\* ------------------------------------------------------------------------
\* C10
\* ------------------------------------------------------------------------

\* C10: whatever calls are made on a built pool, and whether each returns or
\* fails, every step leaves every field of the pool as it was and leaves the
\* swapAmount argument of the call as it was passed.
C10_CallsLeavePoolAndArgument ==
    [][phase = "ready" => (pool' = pool /\ last'.argAfter = last'.arg)]_vars

\* A swap on the pool has returned a positive amount for a positive
\* swapAmount.
C10_SwapReturned ==
    /\ IsSwap
    /\ last.result.ok
    /\ last.result.amount > 0
    /\ last.arg.amount > 0

\* ------------------------------------------------------------------------
\* C11
\* ------------------------------------------------------------------------

\* The result the request gives when it is the only one run against the pool
\* built from the record.
Alone(request) == Quote(fromRawPool(raw).pool, request).result

\* C11: however the quote requests (swapGivenIn, swapGivenOut,
\* getLimitAmountSwap) of concurrent requesters against one pool object
\* interleave, each request returns the result, value or error, that the same
\* request returns when it is the only one run against that pool.
C11_ConcurrentQuotesAsAlone ==
    \A r \in Requesters :
        requests[r].pc = "returned" => requests[r].result = Alone(requests[r])

\* Two requests were outstanding together, the second one run returned a
\* value after the first one run had returned a value.
C11_TwoQuotesReturned ==
    \E r1, r2 \in Requesters :
        /\ r1 # r2
        /\ requests[r1].pc = "returned" /\ requests[r1].result.ok
        /\ requests[r2].pc = "returned" /\ requests[r2].result.ok
        /\ requests[r1].op # requests[r2].op

\* ------------------------------------------------------------------------
\* C12
\* ------------------------------------------------------------------------

\* The token has the address of a token of the pool and another chain.
OnOtherChain(token) ==
    Known(token) /\ Held(token).token.chainId # token.chainId

RecognisedTags == { "Weighted", "ComposableStable", "AaveLinear" }

\* C13: dispatch on the archetype tag returns a weighted pool only for a
\* record tagged 'Weighted' and never refuses such a record as unsupported,
\* and a record whose tag is not recognised fails with UnsupportedPoolType
\* and yields no pool.
C13_DispatchByTag ==
    last.op = "parseRawPool" =>
        /\ pool.kind = "Weighted" => raw.poolType = "Weighted"
        /\ (raw.poolType = "Weighted" /\ last.result.ok) => pool.kind = "Weighted"
        /\ raw.poolType = "Weighted" => ~FailedWith(UnsupportedPoolType)
        /\ raw.poolType \notin RecognisedTags
               => (FailedWith(UnsupportedPoolType) /\ pool = NoPool)

\* A record tagged 'Weighted' was dispatched to a weighted pool.
C13_WeightedDispatched ==
    /\ last.op = "parseRawPool"
    /\ raw.poolType = "Weighted"
    /\ pool.kind = "Weighted"

\* ------------------------------------------------------------------------
\* C14
\* ------------------------------------------------------------------------

\* The swap computed the invariant and the computation failed.
InvariantFailed ==
    /\ pool.kind = "Stable"
    /\ IsSwap
    /\ Len(last.calls) >= 1
    /\ last.calls[1].fn = "_calculateInvariant"
    /\ ~last.calls[1].out.ok

\* C14: if the invariant computation fails during StablePool.swapGivenIn or
\* swapGivenOut, the swap fails with that same error: no swap math runs after
\* the failure, no amount is returned, and the computation is not retried.
C14_InvariantFailureEndsTheSwap ==
    InvariantFailed =>
        /\ FailedWith(last.calls[1].out.error)
        /\ Len(last.calls) = 1

\* The invariant of a swapGivenIn did not converge.
C14_InvariantDidNotConverge ==
    /\ InvariantFailed
    /\ last.op = "swapGivenIn"
    /\ last.calls[1].out.error = InvariantDidNotConverge

\* ------------------------------------------------------------------------
\* C15
\* ------------------------------------------------------------------------

\* C15: the address of every constructed StablePool and LinearPool is the
\* 42-character prefix of its id, which has exactly 66 characters, and
\* construction with an id of any other length fails without producing a
\* pool.
C15_AddressIsPrefixOfId ==
    phase # "raw" =>
        /\ phase = "ready" => (/\ raw.id.length = PoolIdLength
                               /\ pool.address = raw.id.head)
        /\ raw.id.length # PoolIdLength => (phase = "failed" /\ pool = NoPool)

\* Construction from a record whose id is not 66 characters long failed.
C15_OtherLengthRefused ==
    /\ phase = "failed"
    /\ raw.id.length # PoolIdLength
    /\ pool = NoPool

\* ------------------------------------------------------------------------
\* C16: buildCall takes the slippage tolerance only on the side the exit
\* query did not fix.  For an exit with exact liquidity tokens in (single
\* asset, proportional) every minAmountsOut[i] is
\* slippage.removeFrom(amountsOut[i]) and maxBptIn is the queried bptIn; for
\* an exit with exact amounts out (unbalanced) minAmountsOut is the requested
\* amountsOut and maxBptIn is slippage.applyTo(queried bptIn).
\* ------------------------------------------------------------------------

ExactBptIn(input) == input.removeLiquidityKind \in {"SingleTokenExactIn", "Proportional"}

MaxSupply(p) == IF p.kind = "Linear" THEN MAX_TOKEN_BALANCE ELSE PREMINTED_STABLE_BPT

C17_VirtualBalanceIsUnmintedSupply ==
    phase = "ready" =>
        \A k \in 1 .. Len(tokens(pool)) :
            IsLiquidityToken(tokens(pool)[k]) =>
                /\ tokens(pool)[k].virtualBalance =
                     MaxSupply(pool) - tokens(pool)[k].amount
                /\ tokens(pool)[k].virtualBalance + tokens(pool)[k].amount =
                     MaxSupply(pool)

\* A built pool whose liquidity-token entry holds part of the supply.
C17_LiquidityTokenPartlyMinted ==
    /\ phase = "ready"
    /\ \E k \in 1 .. Len(tokens(pool)) :
         /\ IsLiquidityToken(tokens(pool)[k])
         /\ tokens(pool)[k].amount > 0
         /\ tokens(pool)[k].virtualBalance > 0
         /\ tokens(pool)[k].virtualBalance # tokens(pool)[k].amount

\* ------------------------------------------------------------------------
\* C18: StablePool.fromRawPool and LinearPool.fromRawPool leave the raw pool
\* record they are given unchanged, the order of its tokens list included,
\* so a second build from the record, or another reader holding it, sees the
\* record as it was.
\* ------------------------------------------------------------------------

C18_FromRawPoolLeavesRecord ==
    [][(phase = "raw" /\ phase' # "raw") => raw' = raw]_vars

\* ------------------------------------------------------------------------
\* C19: in LinearPool, each of the six ordered pairs of distinct pool tokens
\* (main, wrapped, liquidity token) is routed by swapGivenIn to its own
\* exact-in conversion and by swapGivenOut to its own exact-out conversion,
\* twelve distinct conversions in all; no pair is routed to the conversion
\* of another pair.
\* ------------------------------------------------------------------------

Roles == {"Main", "Wrapped", "Bpt"}

\* The role of a token in a LinearPool, by (chain, address).
Role(token) ==
    IF isEqual(token, pool.mainToken.token) THEN "Main"
    ELSE IF isEqual(token, pool.wrappedToken.token) THEN "Wrapped"
    ELSE IF isEqual(token, pool.bptToken.token) THEN "Bpt"
    ELSE "None"

RolePairs == { pair \in Roles \X Roles : pair[1] # pair[2] }

\* The math of the exact-in conversion of the pair: tokenOut per tokenIn.
ExactInOf ==
    [pair \in RolePairs |->
        IF pair = << "Main", "Wrapped" >> THEN "_calcWrappedOutPerMainIn"
        ELSE IF pair = << "Main", "Bpt" >> THEN "_calcBptOutPerMainIn"
        ELSE IF pair = << "Wrapped", "Main" >> THEN "_calcMainOutPerWrappedIn"
        ELSE IF pair = << "Wrapped", "Bpt" >> THEN "_calcBptOutPerWrappedIn"
        ELSE IF pair = << "Bpt", "Main" >> THEN "_calcMainOutPerBptIn"
        ELSE "_calcWrappedOutPerBptIn"]

\* The math of the exact-out conversion of the pair: tokenIn per tokenOut.
ExactOutOf ==
    [pair \in RolePairs |->
        IF pair = << "Main", "Wrapped" >> THEN "_calcMainInPerWrappedOut"
        ELSE IF pair = << "Main", "Bpt" >> THEN "_calcMainInPerBptOut"
        ELSE IF pair = << "Wrapped", "Main" >> THEN "_calcWrappedInPerMainOut"
        ELSE IF pair = << "Wrapped", "Bpt" >> THEN "_calcWrappedInPerBptOut"
        ELSE IF pair = << "Bpt", "Main" >> THEN "_calcBptInPerMainOut"
        ELSE "_calcBptInPerWrappedOut"]

\* A swap of a LinearPool between two distinct tokens of the pool.
LinearPairSwap ==
    /\ IsSwap
    /\ pool.kind = "Linear"
    /\ << Role(last.tokenIn), Role(last.tokenOut) >> \in RolePairs

C19_EachPairItsOwnConversion ==
    /\ Cardinality({ ExactInOf[pair] : pair \in RolePairs }
                   \cup { ExactOutOf[pair] : pair \in RolePairs }) = 12
    /\ LinearPairSwap =>
         LET pair == << Role(last.tokenIn), Role(last.tokenOut) >>
         IN  /\ last.op = "swapGivenIn" =>
                 /\ Len(last.calls) = 1
                 /\ last.calls[1].fn = ExactInOf[pair]
                 /\ last.result.ok => isEqual(last.result.token, last.tokenOut)
             /\ last.op = "swapGivenOut" =>
                 \/ /\ last.calls = << >>
                    /\ FailedWith(ExceedsPoolLimit)
                 \/ /\ Len(last.calls) = 1
                    /\ last.calls[1].fn = ExactOutOf[pair]
                    /\ last.result.ok => isEqual(last.result.token, last.tokenIn)

\* The last branch of swapGivenOut taken: liquidity token in for an exact
\* wrapped amount out, with an amount returned.
C19_BptInForExactWrappedOut ==
    /\ LinearPairSwap
    /\ last.op = "swapGivenOut"
    /\ Role(last.tokenIn) = "Bpt"
    /\ Role(last.tokenOut) = "Wrapped"
    /\ last.result.ok
    /\ last.result.amount > 0
    /\ last.calls[1].fn = "_calcBptInPerWrappedOut"

\* ------------------------------------------------------------------------
\* C20: in StablePool, a swap whose tokenIn is the pool's liquidity token is
\* computed with the single-token-exit formulas, a swap whose tokenOut is
\* the liquidity token is computed with the single-sided-join formulas
\* applied to a per-token delta vector that is zero everywhere except at the
\* other token's position, and only a swap between two non-liquidity tokens
\* uses the ordinary token-to-token formulas; this holds for swapGivenIn and
\* for swapGivenOut.
\* ------------------------------------------------------------------------

ExitFormulas == {"_calcTokenOutGivenExactBptIn", "_calcBptInGivenExactTokensOut"}

JoinFormulas == {"_calcBptOutGivenExactTokensIn", "_calcTokenInGivenExactBptOut"}

TokenToTokenFormulas == {"_calcOutGivenIn", "_calcInGivenOut"}

\* The token is the liquidity token of the StablePool, by (chain, address).
IsBpt(token) == isEqual(token, At(pool.tokens, pool.bptIndex).token)

\* The position of the token among the pool's tokens without the liquidity
\* token.
PositionNoBpt(token) == AddressIndex(pool.tokensNoBpt, token)

\* The vector has one entry per non-liquidity token, the amount at the
\* position and zero elsewhere.
IsDeltaVector(v, position, amount) ==
    /\ Len(v) = Len(pool.tokensNoBpt)
    /\ \A k \in 1 .. Len(v) : v[k] = IF k = position + 1 THEN amount ELSE 0

\* A StablePool swap on two different tokens that reached its swap math.
StableMathSwap ==
    /\ IsSwap
    /\ pool.kind = "Stable"
    /\ RanSwapMath
    /\ last.tokenIn.address # last.tokenOut.address

C20_JoinOnDeltaVectorBothWays ==
    StableMathSwap =>
        IF IsBpt(last.tokenIn) THEN SwapMathCall.fn \in ExitFormulas
        ELSE IF IsBpt(last.tokenOut)
        THEN /\ SwapMathCall.fn \in JoinFormulas
             /\ IsDeltaVector(SwapMathCall.amounts,
                              PositionNoBpt(last.tokenIn), SwapMathCall.amount)
        ELSE SwapMathCall.fn \in TokenToTokenFormulas

\* C20 as the code has it: the formula family is chosen by the side the
\* liquidity token is on, in both directions; the delta vector carries the
\* side given exactly in pool tokens (the input of a swapGivenIn into the
\* liquidity token, the output of a swapGivenOut out of it), and the other
\* two routines take the position of the one token instead.
C20_FamilyBySideVectorForExactTokens ==
    StableMathSwap =>
        IF last.op = "swapGivenIn"
        THEN IF IsBpt(last.tokenIn)
             THEN /\ SwapMathCall.fn = "_calcTokenOutGivenExactBptIn"
                  /\ SwapMathCall.indices = << PositionNoBpt(last.tokenOut) >>
                  /\ SwapMathCall.amounts = << >>
             ELSE IF IsBpt(last.tokenOut)
             THEN /\ SwapMathCall.fn = "_calcBptOutGivenExactTokensIn"
                  /\ IsDeltaVector(SwapMathCall.amounts,
                                   PositionNoBpt(last.tokenIn),
                                   SwapMathCall.amount)
             ELSE /\ SwapMathCall.fn = "_calcOutGivenIn"
                  /\ SwapMathCall.amounts = << >>
        ELSE IF IsBpt(last.tokenIn)
             THEN /\ SwapMathCall.fn = "_calcBptInGivenExactTokensOut"
                  /\ IsDeltaVector(SwapMathCall.amounts,
                                   PositionNoBpt(last.tokenOut),
                                   SwapMathCall.amount)
             ELSE IF IsBpt(last.tokenOut)
             THEN /\ SwapMathCall.fn = "_calcTokenInGivenExactBptOut"
                  /\ SwapMathCall.indices = << PositionNoBpt(last.tokenIn) >>
                  /\ SwapMathCall.amounts = << >>
             ELSE /\ SwapMathCall.fn = "_calcInGivenOut"
                  /\ SwapMathCall.amounts = << >>

\* A swapGivenOut for an exact amount of the liquidity token, computed by
\* the join routine that takes the position of tokenIn, with an amount
\* returned.
C20_ExactBptOutByPosition ==
    /\ StableMathSwap
    /\ last.op = "swapGivenOut"
    /\ IsBpt(last.tokenOut)
    /\ ~IsBpt(last.tokenIn)
    /\ SwapMathCall.fn = "_calcTokenInGivenExactBptOut"
    /\ SwapMathCall.amounts = << >>
    /\ SwapMathCall.amount > 0
    /\ last.result.ok
    /\ last.result.amount > 0

\* ------------------------------------------------------------------------
\* C22
\* ------------------------------------------------------------------------

\* The entries of the list other than the one with the pool's address, in
\* the order of the list.
WithoutLiquidityToken(entries, address) ==
    SelectSeq(entries, LAMBDA entry : entry.token.address # address)

\* C22: in every constructed StablePool, tokens has the length and order of
\* the list the constructor was given, and tokensNoBpt is that list with
\* exactly the entry of the pool's address removed, the other entries in
\* order; when no entry has the pool's address, tokensNoBpt holds every
\* token of the list.
C22_TokensNoBptLacksOnlyTheLiquidityToken ==
    (phase = "ready" /\ pool.kind = "Stable") =>
        /\ Len(pool.tokens) = Len(raw.tokens)
        /\ \A k \in 1 .. Len(pool.tokens) :
               pool.tokens[k].token.address = raw.tokens[k].address
        /\ pool.tokensNoBpt = WithoutLiquidityToken(pool.tokens, pool.address)

\* The same where the list has an entry with the pool's address.
C22_WhereTheLiquidityTokenIsListed ==
    (phase = "ready" /\ pool.kind = "Stable" /\ pool.bptIndex >= 0) =>
        C22_TokensNoBptLacksOnlyTheLiquidityToken

\* ------------------------------------------------------------------------
\* C23
\* ------------------------------------------------------------------------

\* A StablePool swap on two tokens of the pool, the same or different, that
\* handed a token position to its swap math.
StableSwapByPosition ==
    /\ IsSwap
    /\ pool.kind = "Stable"
    /\ IsPoolToken(last.tokenIn) /\ IsPoolToken(last.tokenOut)
    /\ RanSwapMath
    /\ SwapMathCall.indices # << >>

\* C23: whenever StablePool.swapGivenIn or swapGivenOut invokes a pool math
\* function with a token position, the position is an index of tokensNoBpt,
\* between 0 and length - 1, for every pair of pool tokens, tokenIn equal to
\* tokenOut and both the liquidity token included.
C23_PositionsAreIndicesOfTokensNoBpt ==
    StableSwapByPosition =>
        \A k \in 1 .. Len(SwapMathCall.indices) :
            SwapMathCall.indices[k] \in 0 .. Len(pool.tokensNoBpt) - 1

\* The same for swaps that are not from the liquidity token to itself.
C23_ExceptLiquidityTokenForItself ==
    (StableSwapByPosition /\ ~(IsBpt(last.tokenIn) /\ IsBpt(last.tokenOut))) =>
        C23_PositionsAreIndicesOfTokensNoBpt

\* ------------------------------------------------------------------------
\* C24
\* ------------------------------------------------------------------------

\* The token an amount returned by the swap is to be denominated in: the
\* tokenOut passed to swapGivenIn, the tokenIn passed to swapGivenOut.
QuotedToken == IF last.op = "swapGivenIn" THEN last.tokenOut ELSE last.tokenIn

\* C24: whenever swapGivenIn returns an amount it is denominated in the
\* tokenOut that was passed, and whenever swapGivenOut returns an amount it
\* is denominated in the tokenIn that was passed, in StablePool and in
\* LinearPool, for every pair of arguments, tokenIn equal to tokenOut
\* included.
C24_ReturnedInTheTokenAskedFor ==
    (IsSwap /\ last.result.ok) => isEqual(last.result.token, QuotedToken)

\* The same in StablePool alone.
C24_InStablePool ==
    (IsSwap /\ last.result.ok /\ pool.kind = "Stable") =>
        isEqual(last.result.token, QuotedToken)

\* The same in LinearPool on two different tokens of the pool.
C24_InLinearPoolOnAPair ==
    (IsSwap /\ last.result.ok /\ pool.kind = "Linear" /\ OnPoolPair) =>
        isEqual(last.result.token, QuotedToken)

\* ------------------------------------------------------------------------
\* C25
\* ------------------------------------------------------------------------

\* getLimitAmountSwap with kind GivenOut returned an amount for an ordered
\* pair of pool tokens.
LimitGivenOutQuoted ==
    last.op = "getLimitAmountSwap" /\ last.arg = "GivenOut" /\ OnPoolPair
        /\ last.result.ok

\* The swapGivenOut that requests exactly the amount quoted.
SwapOfLimit ==
    swapGivenOut(pool, last.tokenIn, last.tokenOut,
                 fromRawAmount(last.tokenOut, last.result.amount)).result

\* C25: for every pool and every ordered pair of pool tokens, the amount
\* getLimitAmountSwap returns with kind GivenOut does not exceed the amount
\* the pool holds of tokenOut, so a swapGivenOut requesting exactly that
\* amount is not rejected by the pool-limit check.
C25_LimitGivenOutWithinHeld ==
    LimitGivenOutQuoted =>
        /\ last.result.amount <= Held(last.tokenOut).amount
        /\ ~(~SwapOfLimit.ok /\ SwapOfLimit.error = ExceedsPoolLimit)

\* The same where tokenOut is counted at a rate of one or more and, in
\* LinearPool, is not the liquidity token.
C25_AtRateOfOneOrMore ==
    (/\ LimitGivenOutQuoted
     /\ ("rate" \in DOMAIN Held(last.tokenOut)) => Held(last.tokenOut).rate >= WAD
     /\ ~(pool.kind = "Linear" /\ IsLiquidityToken(Held(last.tokenOut))))
        => C25_LimitGivenOutWithinHeld

\* ------------------------------------------------------------------------
\* C26
\* ------------------------------------------------------------------------

\* The call just made took the fee out of what addSwapFeeAmount returned.
GrossedThenNetted ==
    /\ last.op = "subtractSwapFeeAmount"
    /\ requests[1].op = "addSwapFeeAmount"
    /\ last.arg.amount = requests[1].result.amount

\* C26: for every swap fee f with 0 <= f < WAD and every amount x >= 0 in
\* StablePool, subtractSwapFeeAmount(x) <= x, addSwapFeeAmount(x) >= x, and
\* subtractSwapFeeAmount(addSwapFeeAmount(x)) >= x: grossing an amount up by
\* the fee and then taking the fee out never leaves less than the amount.
C26_FeeOutOfGrossedLeavesTheAmount ==
    /\ (last.op = "subtractSwapFeeAmount") =>
           (last.result.ok /\ last.result.amount <= last.arg.amount)
    /\ (last.op = "addSwapFeeAmount") =>
           (last.result.ok /\ last.result.amount >= last.arg.amount)
    /\ GrossedThenNetted => last.result.amount >= requests[1].arg.amount

\* A positive fee was put on an amount, which grew, and taken out again.
C26_GrossedUpAndNetted ==
    /\ GrossedThenNetted
    /\ pool.swapFee > 0
    /\ requests[1].arg.amount > 0
    /\ requests[1].result.amount > requests[1].arg.amount
    /\ last.result.amount < last.arg.amount

\* ------------------------------------------------------------------------
\* C27
\* ------------------------------------------------------------------------

\* A swap on a StablePool.
IsStableSwap == IsSwap /\ pool.kind = "Stable"

\* The pool's token list has an entry for both tokens of the call.
BothListed == Known(last.tokenIn) /\ Known(last.tokenOut)

\* The token whose held amount limits the call: tokenIn for swapGivenIn,
\* tokenOut for swapGivenOut.
LimitingToken == IF last.op = "swapGivenIn" THEN last.tokenIn ELSE last.tokenOut

\* The amount of the call is more than the pool holds of the limiting token.
OverTheLimit ==
    Known(LimitingToken) /\ last.arg.amount > Held(LimitingToken).amount

\* C27: in StablePool.swapGivenIn and swapGivenOut the token-membership
\* check runs first, the pool-limit check second, and the invariant and the
\* swap math only after both passed: a request that names an unknown token
\* and also exceeds the limit reports the unknown-token error, and no
\* invariant is computed for a request rejected by either check.
C27_MembershipThenLimitThenMath ==
    IsStableSwap =>
        /\ ~BothListed => (FailedWith(UnknownToken) /\ last.calls = << >>)
        /\ (BothListed /\ OverTheLimit) =>
               (FailedWith(ExceedsPoolLimit) /\ last.calls = << >>)
        /\ (BothListed /\ ~OverTheLimit) =>
               (/\ last.calls # << >>
                /\ last.calls[1].fn = "_calculateInvariant"
                /\ ~FailedWith(UnknownToken)
                /\ ~FailedWith(ExceedsPoolLimit))

\* A swapGivenOut with a tokenIn the pool does not list, for more of tokenOut
\* than the pool holds, was refused for the unknown token.
C27_UnknownTokenOverTheLimit ==
    /\ IsStableSwap
    /\ last.op = "swapGivenOut"
    /\ ~Known(last.tokenIn)
    /\ OverTheLimit
    /\ FailedWith(UnknownToken)

\* A swapGivenIn of that kind: tokenOut not listed, more of tokenIn than held.
C27_UnknownTokenOverTheLimitGivenIn ==
    /\ IsStableSwap
    /\ last.op = "swapGivenIn"
    /\ ~Known(last.tokenOut)
    /\ OverTheLimit
    /\ FailedWith(UnknownToken)

\* ------------------------------------------------------------------------
\* C28
\* ------------------------------------------------------------------------

\* A StablePool has been built from the record.
StableBuilt == phase = "ready" /\ pool.kind = "Stable"

\* C28: in every StablePool built by fromRawPool, the entry built as the
\* liquidity token (the one whose address is the record's address field) is
\* the entry at bptIndex (the one whose address is derived from the pool
\* id): exactly tokens[bptIndex] is a BPT, with rate WAD and a virtual
\* balance, and every entry of tokensNoBpt is a rate-bearing
\* StablePoolToken.
C28_LiquidityTokenIsTheEntryAtBptIndex ==
    StableBuilt =>
        /\ Defined(pool.tokens, pool.bptIndex)
        /\ \A k \in 1 .. Len(pool.tokens) :
               /\ IsLiquidityToken(pool.tokens[k]) <=> (k = pool.bptIndex + 1)
               /\ (pool.tokens[k].token.address = raw.address)
                      <=> (k = pool.bptIndex + 1)
               /\ IsLiquidityToken(pool.tokens[k]) => pool.tokens[k].rate = WAD
        /\ \A k \in 1 .. Len(pool.tokensNoBpt) :
               /\ ~IsLiquidityToken(pool.tokensNoBpt[k])
               /\ pool.tokensNoBpt[k].cls = "StablePoolToken"

\* The same for records whose address field is the first 42 characters of
\* the id and whose tokens list that address.
C28_WhereTheRecordAgreesWithItself ==
    (/\ StableBuilt
     /\ raw.address = raw.id.head
     /\ \E k \in 1 .. Len(raw.tokens) : raw.tokens[k].address = raw.address)
        => C28_LiquidityTokenIsTheEntryAtBptIndex

====
